---- MODULE Spec2Model ----
(***************************************************************************)
(* CryptoAnalyst: asset resolution and the staged analysis pipelines.      *)
(*                                                                         *)
(* The model covers the asset catalog (agentic/data/crypto_assets.py), the *)
(* enhanced asset-extraction workflow, the basic analysis workflow and the *)
(* AI workflow.  Spec runs the enhanced and the basic workflow on the      *)
(* extractor's answers, SpecTickers the basic and the AI workflow on the   *)
(* request texts, SpecCatalog sequences of catalog lookups.                *)
(* The state dictionary that is threaded through the stages is a record    *)
(* with a field "keys" holding the keys that are present in the Python     *)
(* dict; confidences are integers in hundredths (0.85 is 85); every text   *)
(* (a request, a log entry's content, a warning, a report) is a sequence   *)
(* of strings: a request is a sequence of characters, a formatted string   *)
(* is the sequence of its literal and interpolated parts.  Log entries are *)
(* modelled by role, agent and content; timestamps and metadata are left   *)
(* out.                                                                    *)
(***************************************************************************)
EXTENDS Integers, Sequences, FiniteSets, TLC

VARIABLES wf, pc, state, outcome, trace

vars == <<wf, pc, state, outcome, trace>>

\* Longest asset list the language-model extractor returns in the model.
MaxAssets == 2

Range(f) == {f[x] : x \in DOMAIN f}

EmptyDict == [k \in {} |-> ""]

\* dict.get(key, default) and dict[key] = value on a record with a keys field.
Get(d, k, default) == IF k \in d.keys THEN d[k] ELSE default

Put(d, k, v) == [d EXCEPT ![k] = v, !.keys = @ \cup {k}]

----------------------------------------------------------------------------
(* agentic/data/crypto_assets.py *)

CRYPTO_ASSETS ==
       ("BTC" :> [keys |-> {"name", "aliases", "confidence"}, name |-> "Bitcoin", aliases |-> <<"bitcoin", "btc", "king", "king of crypto">>, confidence |-> 99, sectors |-> <<>>])
    @@ ("ETH" :> [keys |-> {"name", "aliases", "confidence"}, name |-> "Ethereum", aliases |-> <<"ethereum", "eth", "etherium", "smart contract platform">>, confidence |-> 98, sectors |-> <<>>])
    @@ ("ADA" :> [keys |-> {"name", "aliases", "confidence"}, name |-> "Cardano", aliases |-> <<"cardano", "ada">>, confidence |-> 95, sectors |-> <<>>])
    @@ ("DOT" :> [keys |-> {"name", "aliases", "confidence"}, name |-> "Polkadot", aliases |-> <<"polkadot", "dot", "internet of blockchains">>, confidence |-> 95, sectors |-> <<>>])
    @@ ("LINK" :> [keys |-> {"name", "aliases", "confidence"}, name |-> "Chainlink", aliases |-> <<"chainlink", "link", "oracle network">>, confidence |-> 94, sectors |-> <<>>])
    @@ ("UNI" :> [keys |-> {"name", "aliases", "confidence"}, name |-> "Uniswap", aliases |-> <<"uniswap", "uni", "dex token">>, confidence |-> 93, sectors |-> <<>>])
    @@ ("LTC" :> [keys |-> {"name", "aliases", "confidence"}, name |-> "Litecoin", aliases |-> <<"litecoin", "ltc">>, confidence |-> 92, sectors |-> <<>>])
    @@ ("BCH" :> [keys |-> {"name", "aliases", "confidence"}, name |-> "Bitcoin Cash", aliases |-> <<"bitcoin cash", "bch">>, confidence |-> 91, sectors |-> <<>>])
    @@ ("SOL" :> [keys |-> {"name", "aliases", "confidence"}, name |-> "Solana", aliases |-> <<"solana", "sol">>, confidence |-> 96, sectors |-> <<>>])
    @@ ("MATIC" :> [keys |-> {"name", "aliases", "confidence"}, name |-> "Polygon", aliases |-> <<"polygon", "matic">>, confidence |-> 94, sectors |-> <<>>])
    @@ ("AVAX" :> [keys |-> {"name", "aliases", "confidence"}, name |-> "Avalanche", aliases |-> <<"avalanche", "avax">>, confidence |-> 93, sectors |-> <<>>])
    @@ ("ATOM" :> [keys |-> {"name", "aliases", "confidence"}, name |-> "Cosmos", aliases |-> <<"cosmos", "atom">>, confidence |-> 92, sectors |-> <<>>])
    @@ ("ALGO" :> [keys |-> {"name", "aliases", "confidence"}, name |-> "Algorand", aliases |-> <<"algorand", "algo">>, confidence |-> 90, sectors |-> <<>>])
    @@ ("XLM" :> [keys |-> {"name", "aliases", "confidence"}, name |-> "Stellar", aliases |-> <<"stellar", "xlm">>, confidence |-> 89, sectors |-> <<>>])
    @@ ("VET" :> [keys |-> {"name", "aliases", "confidence"}, name |-> "VeChain", aliases |-> <<"vechain", "vet">>, confidence |-> 88, sectors |-> <<>>])
    @@ ("FET" :> [keys |-> {"name", "aliases", "confidence", "sectors"}, name |-> "Fetch.ai", aliases |-> <<"fetch.ai", "fetch", "fet">>, confidence |-> 85, sectors |-> <<"AI">>])
    @@ ("NEAR" :> [keys |-> {"name", "aliases", "confidence", "sectors"}, name |-> "NEAR Protocol", aliases |-> <<"near protocol", "near">>, confidence |-> 87, sectors |-> <<"AI", "Layer1">>])
    @@ ("RNDR" :> [keys |-> {"name", "aliases", "confidence", "sectors"}, name |-> "Render", aliases |-> <<"render", "rndr">>, confidence |-> 86, sectors |-> <<"AI", "Compute">>])
    @@ ("OCEAN" :> [keys |-> {"name", "aliases", "confidence", "sectors"}, name |-> "Ocean Protocol", aliases |-> <<"ocean protocol", "ocean">>, confidence |-> 84, sectors |-> <<"AI", "Data">>])
    @@ ("AGIX" :> [keys |-> {"name", "aliases", "confidence", "sectors"}, name |-> "SingularityNET", aliases |-> <<"singularitynet", "agix">>, confidence |-> 83, sectors |-> <<"AI">>])
    @@ ("AAVE" :> [keys |-> {"name", "aliases", "confidence", "sectors"}, name |-> "Aave", aliases |-> <<"aave">>, confidence |-> 92, sectors |-> <<"DeFi">>])
    @@ ("COMP" :> [keys |-> {"name", "aliases", "confidence", "sectors"}, name |-> "Compound", aliases |-> <<"compound", "comp">>, confidence |-> 91, sectors |-> <<"DeFi">>])
    @@ ("SUSHI" :> [keys |-> {"name", "aliases", "confidence", "sectors"}, name |-> "SushiSwap", aliases |-> <<"sushiswap", "sushi">>, confidence |-> 89, sectors |-> <<"DeFi">>])
    @@ ("AXS" :> [keys |-> {"name", "aliases", "confidence", "sectors"}, name |-> "Axie Infinity", aliases |-> <<"axie infinity", "axs">>, confidence |-> 88, sectors |-> <<"Gaming">>])
    @@ ("MANA" :> [keys |-> {"name", "aliases", "confidence", "sectors"}, name |-> "Decentraland", aliases |-> <<"decentraland", "mana">>, confidence |-> 87, sectors |-> <<"Gaming", "Metaverse">>])
    @@ ("PEPE" :> [keys |-> {"name", "aliases", "confidence", "sectors"}, name |-> "Pepe", aliases |-> <<"pepe">>, confidence |-> 80, sectors |-> <<"Meme">>])
    @@ ("DOGE" :> [keys |-> {"name", "aliases", "confidence", "sectors"}, name |-> "Dogecoin", aliases |-> <<"dogecoin", "doge">>, confidence |-> 85, sectors |-> <<"Meme">>])
    @@ ("SHIB" :> [keys |-> {"name", "aliases", "confidence", "sectors"}, name |-> "Shiba Inu", aliases |-> <<"shiba inu", "shib">>, confidence |-> 84, sectors |-> <<"Meme">>])
    @@ ("USDT" :> [keys |-> {"name", "aliases", "confidence", "sectors"}, name |-> "Tether", aliases |-> <<"tether", "usdt">>, confidence |-> 96, sectors |-> <<"Stablecoin">>])
    @@ ("USDC" :> [keys |-> {"name", "aliases", "confidence", "sectors"}, name |-> "USD Coin", aliases |-> <<"usd coin", "usdc">>, confidence |-> 95, sectors |-> <<"Stablecoin">>])
    @@ ("DAI" :> [keys |-> {"name", "aliases", "confidence", "sectors"}, name |-> "Dai", aliases |-> <<"dai">>, confidence |-> 94, sectors |-> <<"Stablecoin">>])
    @@ ("ARB" :> [keys |-> {"name", "aliases", "confidence", "sectors"}, name |-> "Arbitrum", aliases |-> <<"arbitrum", "arb">>, confidence |-> 93, sectors |-> <<"Layer2">>])
    @@ ("OP" :> [keys |-> {"name", "aliases", "confidence", "sectors"}, name |-> "Optimism", aliases |-> <<"optimism", "op">>, confidence |-> 92, sectors |-> <<"Layer2">>])
    @@ ("IMX" :> [keys |-> {"name", "aliases", "confidence", "sectors"}, name |-> "Immutable", aliases |-> <<"immutable", "imx">>, confidence |-> 90, sectors |-> <<"Layer2", "Gaming">>])

\* The sector index with a ticker that is not cataloged.
SECTOR_MAPPINGS_Dangling ==
       ("AI" :> <<"FET", "NEAR", "RNDR", "OCEAN", "AGIX">>)
    @@ ("DeFi" :> <<"AAVE", "COMP", "SUSHI", "UNI">>)
    @@ ("Gaming" :> <<"AXS", "MANA", "IMX">>)
    @@ ("Layer1" :> <<"BTC", "ETH", "SOL", "ADA", "DOT", "AVAX">>)
    @@ ("Layer2" :> <<"ARB", "OP", "MATIC">>)
    @@ ("Meme" :> <<"PEPE", "DOGE", "SHIB", "FLOKI">>)
    @@ ("Stablecoin" :> <<"USDT", "USDC", "DAI">>)

SECTOR_MAPPINGS ==
       ("AI" :> <<"FET", "NEAR", "RNDR", "OCEAN", "AGIX">>)
    @@ ("DeFi" :> <<"AAVE", "COMP", "SUSHI", "UNI">>)
    @@ ("Gaming" :> <<"AXS", "MANA", "IMX">>)
    @@ ("Layer1" :> <<"BTC", "ETH", "SOL", "ADA", "DOT", "AVAX">>)
    @@ ("Layer2" :> <<"ARB", "OP", "MATIC">>)
    @@ ("Meme" :> <<"PEPE", "DOGE", "SHIB">>)
    @@ ("Stablecoin" :> <<"USDT", "USDC", "DAI">>)

MISSPELLINGS ==
       ("etherium" :> "ETH")
    @@ ("bitcon" :> "BTC")
    @@ ("solana" :> "SOL")
    @@ ("polkadot" :> "DOT")
    @@ ("chainlink" :> "LINK")
    @@ ("uniswap" :> "UNI")
    @@ ("litecoin" :> "LTC")
    @@ ("bitcoin cash" :> "BCH")
    @@ ("polygon" :> "MATIC")
    @@ ("avalanche" :> "AVAX")
    @@ ("cosmos" :> "ATOM")
    @@ ("algorand" :> "ALGO")
    @@ ("stellar" :> "XLM")
    @@ ("vechain" :> "VET")

CRYPTO_TICKERS ==
       ("Bitcoin" :> "BTC")
    @@ ("Ethereum" :> "ETH")
    @@ ("Cardano" :> "ADA")
    @@ ("Polkadot" :> "DOT")
    @@ ("Chainlink" :> "LINK")
    @@ ("Uniswap" :> "UNI")
    @@ ("Litecoin" :> "LTC")
    @@ ("Bitcoin Cash" :> "BCH")
    @@ ("Solana" :> "SOL")
    @@ ("Polygon" :> "MATIC")
    @@ ("Avalanche" :> "AVAX")
    @@ ("Cosmos" :> "ATOM")
    @@ ("Algorand" :> "ALGO")
    @@ ("Stellar" :> "XLM")
    @@ ("VeChain" :> "VET")

\* str.upper() on the strings the lookups are called with; a string without
\* lowercase letters is its own upper-case form.
UpperTable ==
       ("btc" :> "BTC") @@ ("usdt" :> "USDT") @@ ("pepe" :> "PEPE")
    @@ ("xyz" :> "XYZ") @@ ("ai" :> "AI") @@ ("Ai" :> "AI")
    @@ ("DeFi" :> "DEFI") @@ ("defi" :> "DEFI")
    @@ ("Gaming" :> "GAMING") @@ ("gaming" :> "GAMING")
    @@ ("Layer1" :> "LAYER1") @@ ("Layer2" :> "LAYER2")
    @@ ("Meme" :> "MEME") @@ ("meme" :> "MEME")
    @@ ("Stablecoin" :> "STABLECOIN") @@ ("stablecoin" :> "STABLECOIN")
    @@ ("Metaverse" :> "METAVERSE") @@ ("eth" :> "ETH") @@ ("doge" :> "DOGE")

Upper(s) == IF s \in DOMAIN UpperTable THEN UpperTable[s] ELSE s

\* The empty dict returned for a ticker that is not cataloged.
NoAsset == [keys |-> {}, name |-> "", aliases |-> <<>>, confidence |-> 0, sectors |-> <<>>]

\* The lookup with the Bitcoin entry as its default.
get_asset_by_ticker_DefaultBTC(ticker) ==
    IF Upper(ticker) \in DOMAIN CRYPTO_ASSETS THEN CRYPTO_ASSETS[Upper(ticker)] ELSE CRYPTO_ASSETS["BTC"]

get_asset_by_ticker(ticker) ==
    IF Upper(ticker) \in DOMAIN CRYPTO_ASSETS THEN CRYPTO_ASSETS[Upper(ticker)] ELSE NoAsset

get_assets_by_sector(sector) ==
    IF Upper(sector) \in DOMAIN SECTOR_MAPPINGS THEN SECTOR_MAPPINGS[Upper(sector)] ELSE <<>>

is_stablecoin(ticker) ==
    "Stablecoin" \in Range(Get(get_asset_by_ticker(ticker), "sectors", <<>>))

get_confidence_threshold == 85

should_trigger_hitl(confidence, asset_info) ==
    IF confidence < get_confidence_threshold THEN TRUE
    ELSE IF "Meme" \in Range(Get(asset_info, "sectors", <<>>)) THEN TRUE
    ELSE IF "collision_candidates" \in asset_info.keys THEN TRUE
    ELSE FALSE

get_available_tickers == Range(CRYPTO_TICKERS)

is_valid_ticker(ticker) == ticker \in get_available_tickers

----------------------------------------------------------------------------
(* Texts and formatting *)

Digits == <<"0", "1", "2", "3", "4", "5", "6", "7", "8", "9">>

\* str(n) of a natural number below 100, as its digits.
NumStr(n) == IF n < 10 THEN <<Digits[n + 1]>> ELSE <<Digits[(n \div 10) + 1], Digits[(n % 10) + 1]>>

\* str(x) of a confidence: the int 0 of a missing confidence prints as "0",
\* a float prints with its shortest digits (0.5, 0.84, 1.0).
ConfStr(c) ==
    IF c = 0 THEN <<"0">>
    ELSE IF c = 100 THEN <<"1", ".", "0">>
    ELSE IF c % 10 = 0 THEN <<"0", ".", Digits[(c \div 10) + 1]>>
    ELSE <<"0", ".", Digits[(c \div 10) + 1], Digits[(c % 10) + 1]>>

\* format(x, ".2f") of a confidence.
Conf2f(c) == <<Digits[(c \div 100) + 1], ".", Digits[((c \div 10) % 10) + 1], Digits[(c % 10) + 1]>>

LowerTable ==
       ("A" :> "a") @@ ("B" :> "b") @@ ("C" :> "c") @@ ("D" :> "d") @@ ("E" :> "e")
    @@ ("F" :> "f") @@ ("G" :> "g") @@ ("H" :> "h") @@ ("I" :> "i") @@ ("J" :> "j")
    @@ ("K" :> "k") @@ ("L" :> "l") @@ ("M" :> "m") @@ ("N" :> "n") @@ ("O" :> "o")
    @@ ("P" :> "p") @@ ("Q" :> "q") @@ ("R" :> "r") @@ ("S" :> "s") @@ ("T" :> "t")
    @@ ("U" :> "u") @@ ("V" :> "v") @@ ("W" :> "w") @@ ("X" :> "x") @@ ("Y" :> "y")
    @@ ("Z" :> "z")

\* str.lower() on a sequence of characters.
Lower(text) == [i \in DOMAIN text |-> IF text[i] \in DOMAIN LowerTable THEN LowerTable[text[i]] ELSE text[i]]

\* sub in text
Contains(sub, text) ==
    \E i \in 0..(Len(text) - Len(sub)) : SubSeq(text, i + 1, i + Len(sub)) = sub

\* The request texts of the model, as character sequences.
Texts ==
    { <<>>,
      <<"B", "u", "y", " ", "E", "T", "H">>,
      <<"P", "o", "l", "k", "a", "d", "o", "t">>,
      <<"d", "o", "g", "e">> }

----------------------------------------------------------------------------
(* The requests and the catalog's aliases as character sequences *)

\* The request texts of the runs of the basic and the AI workflow: the inputs
\* of test_error_handling, some of the ticker test cases, and two asset names.
RequestTexts ==
    { <<>>,   \* the empty text
      <<"A", "n", "a", "l", "y", "z", "e", " ", "X", "Y", "Z", "1", "2", "3">>,   \* Analyze XYZ123
      <<"A", "n", "a", "l", "y", "z", "e">>,   \* Analyze
      <<"A", "n", "a", "l", "y", "z", "e", " ", "B", "i", "t", "c", "o", "i", "n", " ", "f", "o", "r", " ", "m", "e">>,   \* Analyze Bitcoin for me
      <<"W", "h", "a", "t", "'", "s", " ", "t", "h", "e", " ", "s", "t", "a", "t", "u", "s", " ", "o", "f", " ", "E", "t", "h", "e", "r", "e", "u", "m", "?">>,   \* What's the status of Ethereum?
      <<"T", "e", "l", "l", " ", "m", "e", " ", "a", "b", "o", "u", "t", " ", "A", "D", "A">>,   \* Tell me about ADA
      <<"H", "o", "w", " ", "i", "s", " ", "D", "O", "T", " ", "p", "e", "r", "f", "o", "r", "m", "i", "n", "g", "?">>,   \* How is DOT performing?
      <<"C", "h", "e", "c", "k", " ", "U", "N", "I">>,   \* Check UNI
      <<"C", "a", "r", "d", "a", "n", "o">>,   \* Cardano
      <<"S", "o", "l", "a", "n", "a">> }   \* Solana

\* For each cataloged asset the texts that name it: its ticker, its name and
\* its aliases, as character sequences.
AliasChars ==
       ("BTC" :> {<<"B", "T", "C">>, <<"B", "i", "t", "c", "o", "i", "n">>, <<"b", "i", "t", "c", "o", "i", "n">>, <<"b", "t", "c">>, <<"k", "i", "n", "g">>, <<"k", "i", "n", "g", " ", "o", "f", " ", "c", "r", "y", "p", "t", "o">>})
    @@ ("ETH" :> {<<"E", "T", "H">>, <<"E", "t", "h", "e", "r", "e", "u", "m">>, <<"e", "t", "h", "e", "r", "e", "u", "m">>, <<"e", "t", "h">>, <<"e", "t", "h", "e", "r", "i", "u", "m">>, <<"s", "m", "a", "r", "t", " ", "c", "o", "n", "t", "r", "a", "c", "t", " ", "p", "l", "a", "t", "f", "o", "r", "m">>})
    @@ ("ADA" :> {<<"A", "D", "A">>, <<"C", "a", "r", "d", "a", "n", "o">>, <<"c", "a", "r", "d", "a", "n", "o">>, <<"a", "d", "a">>})
    @@ ("DOT" :> {<<"D", "O", "T">>, <<"P", "o", "l", "k", "a", "d", "o", "t">>, <<"p", "o", "l", "k", "a", "d", "o", "t">>, <<"d", "o", "t">>, <<"i", "n", "t", "e", "r", "n", "e", "t", " ", "o", "f", " ", "b", "l", "o", "c", "k", "c", "h", "a", "i", "n", "s">>})
    @@ ("LINK" :> {<<"L", "I", "N", "K">>, <<"C", "h", "a", "i", "n", "l", "i", "n", "k">>, <<"c", "h", "a", "i", "n", "l", "i", "n", "k">>, <<"l", "i", "n", "k">>, <<"o", "r", "a", "c", "l", "e", " ", "n", "e", "t", "w", "o", "r", "k">>})
    @@ ("UNI" :> {<<"U", "N", "I">>, <<"U", "n", "i", "s", "w", "a", "p">>, <<"u", "n", "i", "s", "w", "a", "p">>, <<"u", "n", "i">>, <<"d", "e", "x", " ", "t", "o", "k", "e", "n">>})
    @@ ("LTC" :> {<<"L", "T", "C">>, <<"L", "i", "t", "e", "c", "o", "i", "n">>, <<"l", "i", "t", "e", "c", "o", "i", "n">>, <<"l", "t", "c">>})
    @@ ("BCH" :> {<<"B", "C", "H">>, <<"B", "i", "t", "c", "o", "i", "n", " ", "C", "a", "s", "h">>, <<"b", "i", "t", "c", "o", "i", "n", " ", "c", "a", "s", "h">>, <<"b", "c", "h">>})
    @@ ("SOL" :> {<<"S", "O", "L">>, <<"S", "o", "l", "a", "n", "a">>, <<"s", "o", "l", "a", "n", "a">>, <<"s", "o", "l">>})
    @@ ("MATIC" :> {<<"M", "A", "T", "I", "C">>, <<"P", "o", "l", "y", "g", "o", "n">>, <<"p", "o", "l", "y", "g", "o", "n">>, <<"m", "a", "t", "i", "c">>})
    @@ ("AVAX" :> {<<"A", "V", "A", "X">>, <<"A", "v", "a", "l", "a", "n", "c", "h", "e">>, <<"a", "v", "a", "l", "a", "n", "c", "h", "e">>, <<"a", "v", "a", "x">>})
    @@ ("ATOM" :> {<<"A", "T", "O", "M">>, <<"C", "o", "s", "m", "o", "s">>, <<"c", "o", "s", "m", "o", "s">>, <<"a", "t", "o", "m">>})
    @@ ("ALGO" :> {<<"A", "L", "G", "O">>, <<"A", "l", "g", "o", "r", "a", "n", "d">>, <<"a", "l", "g", "o", "r", "a", "n", "d">>, <<"a", "l", "g", "o">>})
    @@ ("XLM" :> {<<"X", "L", "M">>, <<"S", "t", "e", "l", "l", "a", "r">>, <<"s", "t", "e", "l", "l", "a", "r">>, <<"x", "l", "m">>})
    @@ ("VET" :> {<<"V", "E", "T">>, <<"V", "e", "C", "h", "a", "i", "n">>, <<"v", "e", "c", "h", "a", "i", "n">>, <<"v", "e", "t">>})
    @@ ("FET" :> {<<"F", "E", "T">>, <<"F", "e", "t", "c", "h", ".", "a", "i">>, <<"f", "e", "t", "c", "h", ".", "a", "i">>, <<"f", "e", "t", "c", "h">>, <<"f", "e", "t">>})
    @@ ("NEAR" :> {<<"N", "E", "A", "R">>, <<"N", "E", "A", "R", " ", "P", "r", "o", "t", "o", "c", "o", "l">>, <<"n", "e", "a", "r", " ", "p", "r", "o", "t", "o", "c", "o", "l">>, <<"n", "e", "a", "r">>})
    @@ ("RNDR" :> {<<"R", "N", "D", "R">>, <<"R", "e", "n", "d", "e", "r">>, <<"r", "e", "n", "d", "e", "r">>, <<"r", "n", "d", "r">>})
    @@ ("OCEAN" :> {<<"O", "C", "E", "A", "N">>, <<"O", "c", "e", "a", "n", " ", "P", "r", "o", "t", "o", "c", "o", "l">>, <<"o", "c", "e", "a", "n", " ", "p", "r", "o", "t", "o", "c", "o", "l">>, <<"o", "c", "e", "a", "n">>})
    @@ ("AGIX" :> {<<"A", "G", "I", "X">>, <<"S", "i", "n", "g", "u", "l", "a", "r", "i", "t", "y", "N", "E", "T">>, <<"s", "i", "n", "g", "u", "l", "a", "r", "i", "t", "y", "n", "e", "t">>, <<"a", "g", "i", "x">>})
    @@ ("AAVE" :> {<<"A", "A", "V", "E">>, <<"A", "a", "v", "e">>, <<"a", "a", "v", "e">>})
    @@ ("COMP" :> {<<"C", "O", "M", "P">>, <<"C", "o", "m", "p", "o", "u", "n", "d">>, <<"c", "o", "m", "p", "o", "u", "n", "d">>, <<"c", "o", "m", "p">>})
    @@ ("SUSHI" :> {<<"S", "U", "S", "H", "I">>, <<"S", "u", "s", "h", "i", "S", "w", "a", "p">>, <<"s", "u", "s", "h", "i", "s", "w", "a", "p">>, <<"s", "u", "s", "h", "i">>})
    @@ ("AXS" :> {<<"A", "X", "S">>, <<"A", "x", "i", "e", " ", "I", "n", "f", "i", "n", "i", "t", "y">>, <<"a", "x", "i", "e", " ", "i", "n", "f", "i", "n", "i", "t", "y">>, <<"a", "x", "s">>})
    @@ ("MANA" :> {<<"M", "A", "N", "A">>, <<"D", "e", "c", "e", "n", "t", "r", "a", "l", "a", "n", "d">>, <<"d", "e", "c", "e", "n", "t", "r", "a", "l", "a", "n", "d">>, <<"m", "a", "n", "a">>})
    @@ ("PEPE" :> {<<"P", "E", "P", "E">>, <<"P", "e", "p", "e">>, <<"p", "e", "p", "e">>})
    @@ ("DOGE" :> {<<"D", "O", "G", "E">>, <<"D", "o", "g", "e", "c", "o", "i", "n">>, <<"d", "o", "g", "e", "c", "o", "i", "n">>, <<"d", "o", "g", "e">>})
    @@ ("SHIB" :> {<<"S", "H", "I", "B">>, <<"S", "h", "i", "b", "a", " ", "I", "n", "u">>, <<"s", "h", "i", "b", "a", " ", "i", "n", "u">>, <<"s", "h", "i", "b">>})
    @@ ("USDT" :> {<<"U", "S", "D", "T">>, <<"T", "e", "t", "h", "e", "r">>, <<"t", "e", "t", "h", "e", "r">>, <<"u", "s", "d", "t">>})
    @@ ("USDC" :> {<<"U", "S", "D", "C">>, <<"U", "S", "D", " ", "C", "o", "i", "n">>, <<"u", "s", "d", " ", "c", "o", "i", "n">>, <<"u", "s", "d", "c">>})
    @@ ("DAI" :> {<<"D", "A", "I">>, <<"D", "a", "i">>, <<"d", "a", "i">>})
    @@ ("ARB" :> {<<"A", "R", "B">>, <<"A", "r", "b", "i", "t", "r", "u", "m">>, <<"a", "r", "b", "i", "t", "r", "u", "m">>, <<"a", "r", "b">>})
    @@ ("OP" :> {<<"O", "P">>, <<"O", "p", "t", "i", "m", "i", "s", "m">>, <<"o", "p", "t", "i", "m", "i", "s", "m">>, <<"o", "p">>})
    @@ ("IMX" :> {<<"I", "M", "X">>, <<"I", "m", "m", "u", "t", "a", "b", "l", "e">>, <<"i", "m", "m", "u", "t", "a", "b", "l", "e">>, <<"i", "m", "x">>})

----------------------------------------------------------------------------
(* agentic/workflows/global_state.py and the state dict of a run *)

GlobalStateKeys ==
    {"ticker", "price_history", "technical_indicators", "news_articles",
     "sentiment_scores", "risk_profile", "user_feedback", "messages"}

\* The keys the enhanced workflow adds to the state dict.
EnhancedKeys ==
    {"extracted_assets", "analysis_mode", "analysis_meta", "parse_notes",
     "hitl_required", "hitl_reason", "asset_warnings", "all_price_data",
     "all_technical_indicators", "all_news", "all_sentiment", "comprehensive_report"}

\* The initial state the callers build: every GlobalState key present and
\* empty, the message log as given.
InitialState(messages) ==
    [keys |-> GlobalStateKeys,
     ticker |-> "", price_history |-> <<>>, technical_indicators |-> EmptyDict,
     news_articles |-> <<>>, sentiment_scores |-> EmptyDict, risk_profile |-> EmptyDict,
     user_feedback |-> EmptyDict, messages |-> messages,
     extracted_assets |-> <<>>, analysis_mode |-> "", analysis_meta |-> EmptyDict,
     parse_notes |-> "", hitl_required |-> FALSE, hitl_reason |-> "",
     asset_warnings |-> <<>>, all_price_data |-> EmptyDict,
     all_technical_indicators |-> EmptyDict, all_news |-> EmptyDict,
     all_sentiment |-> EmptyDict, comprehensive_report |-> <<>>]

UserMessage(text) == [role |-> "user", agent |-> "", content |-> text]

AgentMessage(agent, content) == [role |-> "agent", agent |-> agent, content |-> content]

\* state["messages"].append(entry)
AppendMessage(s, entry) == [s EXCEPT !.messages = Append(@, entry)]

\* state.get("messages", [{}])[-1].get("content", "") if state.get("messages") else ""
UserInput(s) ==
    IF Get(s, "messages", <<>>) # <<>> THEN s.messages[Len(s.messages)].content ELSE <<>>

----------------------------------------------------------------------------
(* The language-model extractor: what asset_chain.invoke and json.loads    *)
(* can hand to the extraction stage.                                       *)

RespTickers == {"BTC", "USDT", "PEPE", "XYZ"}

RespConfidences == {84, 85}

RespAsset(t, c) ==
    [keys |-> {"ticker", "name", "confidence"}, ticker |-> t,
     name |-> Get(get_asset_by_ticker(t), "name", "Unknown"), confidence |-> c]

\* An entry without a "ticker" key and an entry without a "confidence" key
\* whose ticker is in lower case.
NoTickerAsset == [keys |-> {"name", "confidence"}, ticker |-> "", name |-> "Bitcoin", confidence |-> 85]

NoConfidenceAsset == [keys |-> {"ticker", "name"}, ticker |-> "usdt", name |-> "Tether", confidence |-> 0]

RespAssets ==
    {RespAsset(t, c) : t \in RespTickers, c \in RespConfidences}
        \cup {NoTickerAsset, NoConfidenceAsset}

RespModes == {"asset_specific", "sector"}

RespReasons == {"", "confidence_low", "ambiguous_asset", "sector_request", "extraction_error"}

RespKeys == {"extracted_assets", "mode", "meta", "parse_notes", "hitl_required", "hitl_reason"}

Resp(kind, keys, assets, mode, required, reason) ==
    [kind |-> kind, keys |-> keys, extracted_assets |-> assets, mode |-> mode,
     meta |-> EmptyDict, parse_notes |-> "", hitl_required |-> required, hitl_reason |-> reason]

\* The answers of the extractor.  "raise": the call raises; "unparsable":
\* json.loads raises; "nondict": the text parses to a JSON value that is
\* not an object; "dict": a JSON object.
FailedResponses == {Resp(k, {}, <<>>, "", FALSE, "") : k \in {"raise", "unparsable", "nondict"}}

\* A JSON object with the asset list only (when there is one) and the
\* other keys left out.
BareResponse(assets) ==
    Resp("dict", IF assets = <<>> THEN {} ELSE {"extracted_assets"}, assets, "", FALSE, "")

\* A JSON object with every key of the response format.
FullResponse(assets, mode, required, reason) ==
    Resp("dict", RespKeys, assets, mode, required, reason)

----------------------------------------------------------------------------
(* agentic/workflows/enhanced_asset_extraction_workflow.py *)

EnhancedEntry == "enhanced_asset_extraction"

\* The edges with the gate wired before the validator.
EnhancedEdges_GateFirst ==
       ("enhanced_asset_extraction" :> "human_in_the_loop")
    @@ ("human_in_the_loop" :> "asset_validation")
    @@ ("asset_validation" :> "price_retrieval")
    @@ ("price_retrieval" :> "technical_analysis")
    @@ ("technical_analysis" :> "news_retrieval")
    @@ ("news_retrieval" :> "sentiment_analysis")
    @@ ("sentiment_analysis" :> "comprehensive_reporter")
    @@ ("comprehensive_reporter" :> "END")

\* workflow.add_edge(a, b): the node that runs after each node.
EnhancedEdges ==
       ("enhanced_asset_extraction" :> "asset_validation")
    @@ ("asset_validation" :> "human_in_the_loop")
    @@ ("human_in_the_loop" :> "price_retrieval")
    @@ ("price_retrieval" :> "technical_analysis")
    @@ ("technical_analysis" :> "news_retrieval")
    @@ ("news_retrieval" :> "sentiment_analysis")
    @@ ("sentiment_analysis" :> "comprehensive_reporter")
    @@ ("comprehensive_reporter" :> "END")

\* [asset['ticker'] for asset in assets]
TickerList(assets) == [i \in DOMAIN assets |-> assets[i].ticker]

FallbackAsset == [keys |-> {"ticker", "name", "confidence"}, ticker |-> "BTC", name |-> "Bitcoin", confidence |-> 50]

\* The except branch with the asset list left empty.
ExtractionFallback_NoAsset(s) ==
    LET s1 == Put(s, "ticker", "BTC")
        s2 == Put(s1, "extracted_assets", <<>>)
        s3 == Put(s2, "analysis_mode", "asset_specific")
        s4 == Put(s3, "hitl_required", TRUE)
        s5 == Put(s4, "hitl_reason", "extraction_error")
    IN  AppendMessage(s5, AgentMessage("enhanced_asset_extraction",
                                       <<"Asset extraction failed, using fallback: BTC">>))

\* The except branch of the extraction stage.
ExtractionFallback(s) ==
    LET s1 == Put(s, "ticker", "BTC")
        s2 == Put(s1, "extracted_assets", <<FallbackAsset>>)
        s3 == Put(s2, "analysis_mode", "asset_specific")
        s4 == Put(s3, "hitl_required", TRUE)
        s5 == Put(s4, "hitl_reason", "extraction_error")
    IN  AppendMessage(s5, AgentMessage("enhanced_asset_extraction",
                                       <<"Asset extraction failed, using fallback: BTC">>))

\* The assignments of the try branch, from the parsed response.
ExtractionWrites(s, r, primary_ticker) ==
    LET s1 == Put(s, "ticker", primary_ticker)
        s2 == Put(s1, "extracted_assets", Get(r, "extracted_assets", <<>>))
        s3 == Put(s2, "analysis_mode", Get(r, "mode", "asset_specific"))
        s4 == Put(s3, "analysis_meta", Get(r, "meta", EmptyDict))
        s5 == Put(s4, "parse_notes", Get(r, "parse_notes", ""))
        s6 == Put(s5, "hitl_required", Get(r, "hitl_required", FALSE))
    IN  Put(s6, "hitl_reason", Get(r, "hitl_reason", ""))

\* The try block raises before any assignment: the call or json.loads raises,
\* the parsed value has no .get, or the first asset has no "ticker" key.
RaisesBeforeWrites(r) ==
    \/ r.kind # "dict"
    \/ LET assets == Get(r, "extracted_assets", <<>>)
       IN  assets # <<>> /\ "ticker" \notin assets[1].keys

\* The try block raises while it formats the log entry, after the
\* assignments: a later asset has no "ticker" key.
RaisesAfterWrites(r) ==
    /\ ~RaisesBeforeWrites(r)
    /\ LET assets == Get(r, "extracted_assets", <<>>)
       IN  \E i \in DOMAIN assets : "ticker" \notin assets[i].keys

enhanced_asset_extraction_agent(s, r) ==
    LET assets == Get(r, "extracted_assets", <<>>)
        written == ExtractionWrites(s, r, IF assets # <<>> THEN assets[1].ticker ELSE "BTC")
    IN  IF RaisesBeforeWrites(r) THEN ExtractionFallback(s)
        ELSE IF RaisesAfterWrites(r) THEN ExtractionFallback(written)
        ELSE AppendMessage(written,
                 AgentMessage("enhanced_asset_extraction",
                     <<"Enhanced AI extracted ">> \o NumStr(Len(assets))
                         \o <<" assets: ">> \o TickerList(assets)))

StablecoinWarning(ticker) ==
    <<"Stablecoin detected: ", ticker, " - Technical analysis may not be meaningful">>

LowConfidenceWarning(ticker, confidence) ==
    <<"Low confidence in ", ticker, ": ">> \o ConfStr(confidence)

MemeWarning(ticker) ==
    <<"Meme coin detected: ", ticker, " - High volatility expected">>

\* The validation loop's body with the low-confidence test made inclusive.
AssetWarnings_Inclusive(asset) ==
    LET ticker == Get(asset, "ticker", "")
        confidence == Get(asset, "confidence", 0)
    IN  (IF is_stablecoin(ticker) THEN <<StablecoinWarning(ticker)>> ELSE <<>>)
            \o (IF confidence <= 85 THEN <<LowConfidenceWarning(ticker, confidence)>> ELSE <<>>)
            \o (IF "Meme" \in Range(Get(get_asset_by_ticker(ticker), "sectors", <<>>))
                THEN <<MemeWarning(ticker)>> ELSE <<>>)

\* The validation loop's body with the low-confidence test at 0.5.
AssetWarnings_Threshold50(asset) ==
    LET ticker == Get(asset, "ticker", "")
        confidence == Get(asset, "confidence", 0)
    IN  (IF is_stablecoin(ticker) THEN <<StablecoinWarning(ticker)>> ELSE <<>>)
            \o (IF confidence < 50 THEN <<LowConfidenceWarning(ticker, confidence)>> ELSE <<>>)
            \o (IF "Meme" \in Range(Get(get_asset_by_ticker(ticker), "sectors", <<>>))
                THEN <<MemeWarning(ticker)>> ELSE <<>>)

\* The body of the validation loop for one asset.
AssetWarnings(asset) ==
    LET ticker == Get(asset, "ticker", "")
        confidence == Get(asset, "confidence", 0)
    IN  (IF is_stablecoin(ticker) THEN <<StablecoinWarning(ticker)>> ELSE <<>>)
            \o (IF confidence < 85 THEN <<LowConfidenceWarning(ticker, confidence)>> ELSE <<>>)
            \o (IF "Meme" \in Range(Get(get_asset_by_ticker(ticker), "sectors", <<>>))
                THEN <<MemeWarning(ticker)>> ELSE <<>>)

RECURSIVE ValidationWarnings(_)
ValidationWarnings(assets) ==
    IF assets = <<>> THEN <<>>
    ELSE AssetWarnings(Head(assets)) \o ValidationWarnings(Tail(assets))

\* The validation stage going through the assets from the last to the first.
asset_validation_agent_LastAssetFirst(s) ==
    LET assets == Get(s, "extracted_assets", <<>>)
        warnings == ValidationWarnings([i \in DOMAIN assets |-> assets[Len(assets) + 1 - i]])
    IN  AppendMessage(Put(s, "asset_warnings", warnings),
            AgentMessage("asset_validation",
                <<"Asset validation complete. Warnings: ">> \o NumStr(Len(warnings))))

\* The validation stage assigning a fresh log instead of appending.
asset_validation_agent_ResetsLog(s) ==
    LET warnings == ValidationWarnings(Get(s, "extracted_assets", <<>>))
    IN  [Put(s, "asset_warnings", warnings) EXCEPT !.messages =
            <<AgentMessage("asset_validation",
                <<"Asset validation complete. Warnings: ">> \o NumStr(Len(warnings)))>>]

asset_validation_agent(s) ==
    LET warnings == ValidationWarnings(Get(s, "extracted_assets", <<>>))
    IN  AppendMessage(Put(s, "asset_warnings", warnings),
            AgentMessage("asset_validation",
                <<"Asset validation complete. Warnings: ">> \o NumStr(Len(warnings))))

NoInterventionMessage == <<"No human intervention required, proceeding with analysis">>

\* The gate recording a pending confirmation when review is required.
human_in_the_loop_agent_Pending(s) ==
    IF ~Get(s, "hitl_required", FALSE)
    THEN AppendMessage(s, AgentMessage("human_in_the_loop", NoInterventionMessage))
    ELSE AppendMessage(Put(s, "user_feedback", [status |-> "pending"]),
             AgentMessage("human_in_the_loop",
                 <<"Human-in-the-loop required for: ", Get(s, "hitl_reason", "unknown"),
                   ". Proceeding with analysis.">>))

human_in_the_loop_agent(s) ==
    LET hitl_reason == Get(s, "hitl_reason", "unknown")
        tickers == TickerList(Get(s, "extracted_assets", <<>>))
        message ==
            IF hitl_reason = "confidence_low"
            THEN <<"Low confidence in asset extraction. Extracted: ">> \o tickers
                     \o <<". Proceeding with analysis.">>
            ELSE IF hitl_reason = "ambiguous_asset"
            THEN <<"Ambiguous asset detected. Extracted: ">> \o tickers
                     \o <<". Proceeding with analysis.">>
            ELSE IF hitl_reason = "sector_request"
            THEN <<"Sector request detected. Representative assets: ">> \o tickers
                     \o <<". Proceeding with analysis.">>
            ELSE <<"Human-in-the-loop required for: ", hitl_reason, ". Proceeding with analysis.">>
    IN  IF ~Get(s, "hitl_required", FALSE)
        THEN AppendMessage(s, AgentMessage("human_in_the_loop", NoInterventionMessage))
        ELSE AppendMessage(s, AgentMessage("human_in_the_loop", message))

DictGet(f, k, default) == IF k \in DOMAIN f THEN f[k] ELSE default

\* The set of tickers that key the per-ticker dicts built from the asset list.
AssetTickers(assets) == {Get(assets[i], "ticker", "") : i \in DOMAIN assets}

\* _fetch_price_data (the same placeholder in both workflows).
fetch_price_data(ticker) ==
    << [timestamp |-> "2024-01-01", price |-> 45000, volume |-> 1000000],
       [timestamp |-> "2024-01-02", price |-> 46000, volume |-> 1100000],
       [timestamp |-> "2024-01-03", price |-> 44000, volume |-> 900000] >>

\* _calculate_technical_indicators (the same placeholder in both workflows).
calculate_technical_indicators(price_history) ==
    [rsi |-> "65.5", macd |-> "0.0023", bollinger_upper |-> "47000.0",
     bollinger_lower |-> "43000.0", sma_20 |-> "45000.0", ema_12 |-> "45200.0"]

\* _analyze_sentiment (the same placeholder in both workflows).
analyze_sentiment(news_articles) ==
    [overall_sentiment |-> "0.65", positive_ratio |-> "0.6", negative_ratio |-> "0.2",
     neutral_ratio |-> "0.2", confidence |-> "0.85"]

\* EnhancedAssetExtractionWorkflow._fetch_news_articles
enhanced_fetch_news_articles(ticker) ==
    << [title |-> <<"Major development for ", ticker>>,
        content |-> <<"Significant news about ", ticker, " cryptocurrency...">>,
        source |-> "CryptoNews", sentiment |-> "positive",
        timestamp |-> "2024-01-01T10:00:00Z"] >>

enhanced_price_retrieval_agent(s) ==
    LET extracted_assets == Get(s, "extracted_assets", <<>>)
        all_price_data == [t \in AssetTickers(extracted_assets) |-> fetch_price_data(t)]
        s1 == Put(s, "price_history", DictGet(all_price_data, Get(s, "ticker", "BTC"), <<>>))
        s2 == Put(s1, "all_price_data", all_price_data)
    IN  AppendMessage(s2, AgentMessage("price_retrieval",
            <<"Retrieved price data for ">> \o NumStr(Len(extracted_assets)) \o <<" assets">>))

enhanced_technical_analysis_agent(s) ==
    LET all_price_data == Get(s, "all_price_data", EmptyDict)
        all_indicators == [t \in DOMAIN all_price_data |-> calculate_technical_indicators(all_price_data[t])]
        s1 == Put(s, "technical_indicators", DictGet(all_indicators, Get(s, "ticker", "BTC"), EmptyDict))
        s2 == Put(s1, "all_technical_indicators", all_indicators)
    IN  AppendMessage(s2, AgentMessage("technical_analysis",
            <<"Calculated technical indicators for ">>
                \o NumStr(Cardinality(DOMAIN all_indicators)) \o <<" assets">>))

\* The news stage clearing the primary price history.
enhanced_news_retrieval_agent_ClearsPrices(s) ==
    LET extracted_assets == Get(s, "extracted_assets", <<>>)
        all_news == [t \in AssetTickers(extracted_assets) |-> enhanced_fetch_news_articles(t)]
        s1 == Put(s, "news_articles", DictGet(all_news, Get(s, "ticker", "BTC"), <<>>))
        s2 == Put(Put(s1, "all_news", all_news), "price_history", <<>>)
    IN  AppendMessage(s2, AgentMessage("news_retrieval",
            <<"Retrieved news for ">> \o NumStr(Len(extracted_assets)) \o <<" assets">>))

enhanced_news_retrieval_agent(s) ==
    LET extracted_assets == Get(s, "extracted_assets", <<>>)
        all_news == [t \in AssetTickers(extracted_assets) |-> enhanced_fetch_news_articles(t)]
        s1 == Put(s, "news_articles", DictGet(all_news, Get(s, "ticker", "BTC"), <<>>))
        s2 == Put(s1, "all_news", all_news)
    IN  AppendMessage(s2, AgentMessage("news_retrieval",
            <<"Retrieved news for ">> \o NumStr(Len(extracted_assets)) \o <<" assets">>))

enhanced_sentiment_analysis_agent(s) ==
    LET all_news == Get(s, "all_news", EmptyDict)
        all_sentiment == [t \in DOMAIN all_news |-> analyze_sentiment(all_news[t])]
        s1 == Put(s, "sentiment_scores", DictGet(all_sentiment, Get(s, "ticker", "BTC"), EmptyDict))
        s2 == Put(s1, "all_sentiment", all_sentiment)
    IN  AppendMessage(s2, AgentMessage("sentiment_analysis",
            <<"Analyzed sentiment for ">>
                \o NumStr(Cardinality(DOMAIN all_sentiment)) \o <<" assets">>))

RECURSIVE Flatten(_)
Flatten(seqs) == IF seqs = <<>> THEN <<>> ELSE Head(seqs) \o Flatten(Tail(seqs))

\* One line of the report's asset summary.
AssetSummaryLine(asset) ==
    <<"- **", Get(asset, "ticker", ""), "** (", Get(asset, "name", ""), "): Confidence ">>
        \o Conf2f(Get(asset, "confidence", 0))

\* EnhancedAssetExtractionWorkflow._generate_comprehensive_report
enhanced_generate_comprehensive_report(extracted_assets, analysis_mode, asset_warnings) ==
    <<"# Comprehensive Crypto Analysis Report", "**Analysis Mode:** ", analysis_mode,
      "**Assets Analyzed:** ">> \o NumStr(Len(extracted_assets))
        \o (IF asset_warnings # <<>>
            THEN <<"## Warnings">> \o Flatten([i \in DOMAIN asset_warnings |-> <<"- ">> \o asset_warnings[i]])
            ELSE <<>>)
        \o <<"## Asset Summary">>
        \o Flatten([i \in DOMAIN extracted_assets |-> AssetSummaryLine(extracted_assets[i])])
        \o <<"## Technical Analysis", "Technical indicators calculated for all assets.",
             "## Sentiment Analysis", "Sentiment analysis completed for all assets.",
             "## Recommendations", "Based on comprehensive analysis of all extracted assets.">>

\* The report stage logging a notice in place of the report.
comprehensive_reporter_agent_LogsNotice(s) ==
    LET report == enhanced_generate_comprehensive_report(
                      Get(s, "extracted_assets", <<>>),
                      Get(s, "analysis_mode", "asset_specific"),
                      Get(s, "asset_warnings", <<>>))
    IN  AppendMessage(Put(s, "comprehensive_report", report),
                      AgentMessage("comprehensive_reporter", <<"Report generated">>))

comprehensive_reporter_agent(s) ==
    LET report == enhanced_generate_comprehensive_report(
                      Get(s, "extracted_assets", <<>>),
                      Get(s, "analysis_mode", "asset_specific"),
                      Get(s, "asset_warnings", <<>>))
    IN  AppendMessage(Put(s, "comprehensive_report", report),
                      AgentMessage("comprehensive_reporter", report))

----------------------------------------------------------------------------
(* agentic/workflows/crypto_analysis_workflow.py *)

BasicEntry == "ticker_extraction"

\* The edges with the reporter left out.
BasicEdges_SkipReporter ==
       ("ticker_extraction" :> "price_retrieval")
    @@ ("price_retrieval" :> "technical_analysis")
    @@ ("technical_analysis" :> "news_retrieval")
    @@ ("news_retrieval" :> "sentiment_analysis")
    @@ ("sentiment_analysis" :> "END")

BasicEdges ==
       ("ticker_extraction" :> "price_retrieval")
    @@ ("price_retrieval" :> "technical_analysis")
    @@ ("technical_analysis" :> "news_retrieval")
    @@ ("news_retrieval" :> "sentiment_analysis")
    @@ ("sentiment_analysis" :> "financial_reporter")
    @@ ("financial_reporter" :> "END")

common_tickers == <<"BTC", "ETH", "ADA", "DOT", "LINK", "UNI", "LTC", "BCH">>

\* The characters of each entry of common_tickers.
TickerChars ==
       ("BTC" :> <<"B", "T", "C">>) @@ ("ETH" :> <<"E", "T", "H">>)
    @@ ("ADA" :> <<"A", "D", "A">>) @@ ("DOT" :> <<"D", "O", "T">>)
    @@ ("LINK" :> <<"L", "I", "N", "K">>) @@ ("UNI" :> <<"U", "N", "I">>)
    @@ ("LTC" :> <<"L", "T", "C">>) @@ ("BCH" :> <<"B", "C", "H">>)

\* The extraction without its final return "BTC".
extract_ticker_from_text_NoDefault(text) ==
    LET hits == {i \in DOMAIN common_tickers :
                    Contains(Lower(TickerChars[common_tickers[i]]), Lower(text))}
    IN  IF hits # {}
        THEN common_tickers[CHOOSE i \in hits : \A j \in hits : i <= j]
        ELSE ""

extract_ticker_from_text(text) ==
    LET hits == {i \in DOMAIN common_tickers :
                    Contains(Lower(TickerChars[common_tickers[i]]), Lower(text))}
    IN  IF hits # {}
        THEN common_tickers[CHOOSE i \in hits : \A j \in hits : i <= j]
        ELSE "BTC"

ticker_extraction_agent(s) ==
    LET ticker == extract_ticker_from_text(UserInput(s))
    IN  AppendMessage(Put(s, "ticker", ticker),
                      AgentMessage("ticker_extraction", <<"Extracted ticker: ", ticker>>))

\* CryptoAnalysisWorkflow._fetch_news_articles
basic_fetch_news_articles(ticker) ==
    << [title |-> <<"Major development for ", ticker>>,
        content |-> <<"Significant news about ", ticker, " cryptocurrency...">>,
        source |-> "CryptoNews", sentiment |-> "positive",
        timestamp |-> "2024-01-01T10:00:00Z"],
       [title |-> <<ticker, " market analysis">>,
        content |-> <<"Market analysis for ", ticker, "...">>,
        source |-> "CoinDesk", sentiment |-> "neutral",
        timestamp |-> "2024-01-01T09:00:00Z"] >>

basic_price_retrieval_agent(s) ==
    LET price_data == fetch_price_data(s.ticker)
    IN  AppendMessage(Put(s, "price_history", price_data),
            AgentMessage("price_retrieval",
                <<"Retrieved ">> \o NumStr(Len(price_data)) \o <<" price data points for ", s.ticker>>))

IndicatorNames == <<"rsi", "macd", "bollinger_upper", "bollinger_lower", "sma_20", "ema_12">>

basic_technical_analysis_agent(s) ==
    LET indicators == calculate_technical_indicators(s.price_history)
    IN  AppendMessage(Put(s, "technical_indicators", indicators),
            AgentMessage("technical_analysis",
                <<"Calculated technical indicators: ">> \o IndicatorNames))

basic_news_retrieval_agent(s) ==
    LET news_articles == basic_fetch_news_articles(s.ticker)
    IN  AppendMessage(Put(s, "news_articles", news_articles),
            AgentMessage("news_retrieval",
                <<"Retrieved ">> \o NumStr(Len(news_articles)) \o <<" news articles for ", s.ticker>>))

SentimentNames == <<"overall_sentiment", "positive_ratio", "negative_ratio", "neutral_ratio", "confidence">>

basic_sentiment_analysis_agent(s) ==
    LET sentiment_scores == analyze_sentiment(s.news_articles)
    IN  AppendMessage(Put(s, "sentiment_scores", sentiment_scores),
            AgentMessage("sentiment_analysis",
                <<"Analyzed sentiment: ">>
                    \o Flatten([i \in DOMAIN SentimentNames |->
                                   <<SentimentNames[i], sentiment_scores[SentimentNames[i]]>>])))

generate_risk_profile(price_history, technical_indicators, sentiment_scores) ==
    [volatility_score |-> "0.7", risk_level |-> "moderate", recommendation |-> "hold",
     stop_loss |-> "42000.0", take_profit |-> "48000.0", confidence |-> "0.8"]

\* CryptoAnalysisWorkflow._generate_comprehensive_report
basic_generate_comprehensive_report(ticker, technical_indicators, news_articles, sentiment_scores, risk_profile) ==
    <<"# ", ticker, " Comprehensive Analysis Report",
      "## Technical Analysis",
      "- RSI: ", DictGet(technical_indicators, "rsi", "N/A"),
      "- MACD: ", DictGet(technical_indicators, "macd", "N/A"),
      "- Bollinger Bands: ", DictGet(technical_indicators, "bollinger_upper", "N/A"),
      " - ", DictGet(technical_indicators, "bollinger_lower", "N/A"),
      "## Sentiment Analysis",
      "- Overall Sentiment: ", DictGet(sentiment_scores, "overall_sentiment", "N/A"),
      "- Confidence: ", DictGet(sentiment_scores, "confidence", "N/A"),
      "## Risk Assessment",
      "- Risk Level: ", DictGet(risk_profile, "risk_level", "N/A"),
      "- Recommendation: ", DictGet(risk_profile, "recommendation", "N/A"),
      "- Stop Loss: $", DictGet(risk_profile, "stop_loss", "N/A"),
      "- Take Profit: $", DictGet(risk_profile, "take_profit", "N/A"),
      "## News Summary", "Retrieved ">> \o NumStr(Len(news_articles))
        \o <<" relevant articles with mixed sentiment.",
             "## Final Recommendation",
             "Based on technical indicators, sentiment analysis, and market conditions, ",
             "the recommendation is to ", DictGet(risk_profile, "recommendation", "monitor"),
             " ", ticker, ".">>

financial_reporter_agent(s) ==
    LET risk_profile == generate_risk_profile(s.price_history, s.technical_indicators, s.sentiment_scores)
        report == basic_generate_comprehensive_report(s.ticker, s.technical_indicators,
                      s.news_articles, s.sentiment_scores, risk_profile)
    IN  AppendMessage(Put(s, "risk_profile", risk_profile),
                      AgentMessage("financial_reporter", report))

----------------------------------------------------------------------------
(* agentic/workflows/ai_enhanced_workflow.py *)

AIEntry == "ai_ticker_extraction"

AIEdges ==
       ("ai_ticker_extraction" :> "price_retrieval")
    @@ ("price_retrieval" :> "technical_analysis")
    @@ ("technical_analysis" :> "news_retrieval")
    @@ ("news_retrieval" :> "ai_sentiment_analysis")
    @@ ("ai_sentiment_analysis" :> "ai_financial_reporter")
    @@ ("ai_financial_reporter" :> "END")

\* The texts the ticker chain answers with in the model.
TickerAnswerTexts == {"BTC", "ETH", "\"ETH\"", " SOL ", "DOGE", "USDT", "eth", "Bitcoin", "XYZ", ""}

\* An answer of the ticker chain: the call raises, or returns a text.
TickerAnswers ==
    {[kind |-> "raise", text |-> ""]} \cup {[kind |-> "text", text |-> t] : t \in TickerAnswerTexts}

\* .strip().replace('"', '').replace("'", "").strip() on the answers of the
\* model; a text without quotes and outer blanks is left as it is.
CleanTable == ("\"ETH\"" :> "ETH") @@ (" SOL " :> "SOL")

Clean(text) == IF text \in DOMAIN CleanTable THEN CleanTable[text] ELSE text

\* The ticker the stage settles on for an answer.
ai_extracted_ticker(r) ==
    IF r.kind = "raise" THEN "BTC"
    ELSE IF ~is_valid_ticker(Clean(r.text)) THEN "BTC"
    ELSE Clean(r.text)

ai_ticker_extraction_agent(s, r) ==
    LET ticker == ai_extracted_ticker(r)
    IN  AppendMessage(Put(s, "ticker", ticker),
            AgentMessage("ai_ticker_extraction",
                <<"AI extracted ticker: ", ticker, " from input: '">> \o UserInput(s) \o <<"'">>))

\* AIEnhancedCryptoWorkflow._fetch_news_articles
ai_fetch_news_articles(ticker) ==
    << [title |-> <<"Major development for ", ticker>>,
        content |-> <<"Significant news about ", ticker,
                      " cryptocurrency with positive market sentiment...">>,
        source |-> "CryptoNews", sentiment |-> "positive",
        timestamp |-> "2024-01-01T10:00:00Z"],
       [title |-> <<ticker, " market analysis">>,
        content |-> <<"Market analysis for ", ticker,
                      " shows mixed signals with moderate volatility...">>,
        source |-> "CoinDesk", sentiment |-> "neutral",
        timestamp |-> "2024-01-01T09:00:00Z"] >>

ai_price_retrieval_agent(s) ==
    LET price_data == fetch_price_data(s.ticker)
    IN  AppendMessage(Put(s, "price_history", price_data),
            AgentMessage("price_retrieval",
                <<"Retrieved ">> \o NumStr(Len(price_data)) \o <<" price data points for ", s.ticker>>))

ai_technical_analysis_agent(s) ==
    LET indicators == calculate_technical_indicators(s.price_history)
    IN  AppendMessage(Put(s, "technical_indicators", indicators),
            AgentMessage("technical_analysis",
                <<"Calculated technical indicators: ">> \o IndicatorNames))

ai_news_retrieval_agent(s) ==
    LET news_articles == ai_fetch_news_articles(s.ticker)
    IN  AppendMessage(Put(s, "news_articles", news_articles),
            AgentMessage("news_retrieval",
                <<"Retrieved ">> \o NumStr(Len(news_articles)) \o <<" news articles for ", s.ticker>>))

\* The scores the sentiment stage falls back to.
AISentimentFallback ==
    [overall_sentiment |-> "0.65", positive_ratio |-> "0.6", negative_ratio |-> "0.2",
     neutral_ratio |-> "0.2", confidence |-> "0.85",
     key_sentiment_drivers |-> <<"market sentiment", "news coverage">>]

\* An answer of the sentiment chain: the call raises ("raise"), json.loads
\* raises ("unparsable"), the text parses to a JSON object ("dict": one
\* with all the keys asked for, one with none) or to a JSON value that is
\* not an object ("nondict", a number, held in the field "number").
SentimentAnswers ==
    { [kind |-> "raise", value |-> EmptyDict],
      [kind |-> "unparsable", value |-> EmptyDict],
      [kind |-> "dict", value |-> EmptyDict],
      [kind |-> "dict",
       value |-> [overall_sentiment |-> "-0.4", positive_ratio |-> "0.1", negative_ratio |-> "0.7",
                  neutral_ratio |-> "0.2", confidence |-> "0.9",
                  key_sentiment_drivers |-> <<"regulation">>]],
      [kind |-> "nondict", value |-> [number |-> "0.5"]] }

\* The sentiment stage up to and including the assignment of the scores.
ai_sentiment_scores(r) ==
    IF r.kind \in {"raise", "unparsable"} THEN AISentimentFallback ELSE r.value

\* The sentiment stage with an except branch that leaves the scores empty.
ai_sentiment_analysis_agent_EmptyFallback(s, r) ==
    LET sentiment_scores == IF r.kind \in {"raise", "unparsable"} THEN EmptyDict ELSE r.value
    IN  AppendMessage(Put(s, "sentiment_scores", sentiment_scores),
            AgentMessage("ai_sentiment_analysis",
                <<"AI analyzed sentiment: ", DictGet(sentiment_scores, "overall_sentiment", "N/A"),
                  " with ", DictGet(sentiment_scores, "confidence", "N/A"), " confidence">>))

\* The sentiment stage.  For a "nondict" answer the scores are assigned and
\* sentiment_scores.get then raises while the log entry is formatted: the
\* result is the state the raising stage leaves behind.
ai_sentiment_analysis_agent(s, r) ==
    LET sentiment_scores == ai_sentiment_scores(r)
    IN  IF r.kind = "nondict"
        THEN Put(s, "sentiment_scores", sentiment_scores)
        ELSE AppendMessage(Put(s, "sentiment_scores", sentiment_scores),
                 AgentMessage("ai_sentiment_analysis",
                     <<"AI analyzed sentiment: ", DictGet(sentiment_scores, "overall_sentiment", "N/A"),
                       " with ", DictGet(sentiment_scores, "confidence", "N/A"), " confidence">>))

\* An answer of the report chain: the call raises, or returns the report.
ReportAnswers ==
    { [kind |-> "raise", text |-> <<>>],
      [kind |-> "text", text |-> <<"# Executive Summary", "...">>] }

ai_financial_reporter_agent(s, r) ==
    LET risk_profile == generate_risk_profile(s.price_history, s.technical_indicators, s.sentiment_scores)
        report ==
            IF r.kind = "raise"
            THEN basic_generate_comprehensive_report(s.ticker, s.technical_indicators,
                     s.news_articles, s.sentiment_scores, risk_profile)
            ELSE r.text
    IN  AppendMessage(Put(s, "risk_profile", risk_profile),
                      AgentMessage("ai_financial_reporter", report))

----------------------------------------------------------------------------
(* The executor: workflow.invoke(initial_state) runs the node at pc on the *)
(* state and moves to the node its edge names.  wf is the workflow built,  *)
(* outcome what the extractor did in this run (the kind of its answer and   *)
(* whether the stage took its except branch), trace the nodes run so far.  *)

Workflows == {"enhanced", "basic"}

Entry == ("enhanced" :> EnhancedEntry) @@ ("basic" :> BasicEntry) @@ ("ai" :> AIEntry)

Edges == ("enhanced" :> EnhancedEdges) @@ ("basic" :> BasicEdges) @@ ("ai" :> AIEdges)

\* The message logs a run starts with: empty, or the user's request.
InitialLogs == {<<>>} \cup {<<UserMessage(t)>> : t \in Texts}

NoOutcome == [kind |-> "none", fallback |-> FALSE]

Init ==
    /\ wf \in Workflows
    /\ pc = Entry[wf]
    /\ state \in {InitialState(m) : m \in InitialLogs}
    /\ outcome = NoOutcome
    /\ trace = <<>>

\* The executor runs node on the state and follows the node's edge.
RunNode(w, node, result) ==
    /\ wf = w
    /\ pc = node
    /\ state' = result
    /\ pc' = Edges[w][node]
    /\ trace' = Append(trace, node)
    /\ wf' = wf

\* The extraction stage on the extractor's answer r.
ExtractionStep(r) ==
    /\ RunNode("enhanced", "enhanced_asset_extraction", enhanced_asset_extraction_agent(state, r))
    /\ outcome' = [kind |-> r.kind, fallback |-> RaisesBeforeWrites(r) \/ RaisesAfterWrites(r)]

EnhancedAssetExtraction ==
    /\ wf = "enhanced"
    /\ pc = "enhanced_asset_extraction"
    /\ \/ \E r \in FailedResponses : ExtractionStep(r)
       \/ \E n \in 0..MaxAssets : \E assets \in [1..n -> RespAssets] :
              \/ ExtractionStep(BareResponse(assets))
              \/ \E mode \in RespModes, required \in BOOLEAN, reason \in RespReasons :
                     ExtractionStep(FullResponse(assets, mode, required, reason))

AssetValidation ==
    /\ RunNode("enhanced", "asset_validation", asset_validation_agent(state))
    /\ UNCHANGED outcome

HumanInTheLoop ==
    /\ RunNode("enhanced", "human_in_the_loop", human_in_the_loop_agent(state))
    /\ UNCHANGED outcome

EnhancedPriceRetrieval ==
    /\ RunNode("enhanced", "price_retrieval", enhanced_price_retrieval_agent(state))
    /\ UNCHANGED outcome

EnhancedTechnicalAnalysis ==
    /\ RunNode("enhanced", "technical_analysis", enhanced_technical_analysis_agent(state))
    /\ UNCHANGED outcome

EnhancedNewsRetrieval ==
    /\ RunNode("enhanced", "news_retrieval", enhanced_news_retrieval_agent(state))
    /\ UNCHANGED outcome

EnhancedSentimentAnalysis ==
    /\ RunNode("enhanced", "sentiment_analysis", enhanced_sentiment_analysis_agent(state))
    /\ UNCHANGED outcome

ComprehensiveReporter ==
    /\ RunNode("enhanced", "comprehensive_reporter", comprehensive_reporter_agent(state))
    /\ UNCHANGED outcome

TickerExtraction ==
    /\ RunNode("basic", "ticker_extraction", ticker_extraction_agent(state))
    /\ UNCHANGED outcome

BasicPriceRetrieval ==
    /\ RunNode("basic", "price_retrieval", basic_price_retrieval_agent(state))
    /\ UNCHANGED outcome

BasicTechnicalAnalysis ==
    /\ RunNode("basic", "technical_analysis", basic_technical_analysis_agent(state))
    /\ UNCHANGED outcome

BasicNewsRetrieval ==
    /\ RunNode("basic", "news_retrieval", basic_news_retrieval_agent(state))
    /\ UNCHANGED outcome

BasicSentimentAnalysis ==
    /\ RunNode("basic", "sentiment_analysis", basic_sentiment_analysis_agent(state))
    /\ UNCHANGED outcome

FinancialReporter ==
    /\ RunNode("basic", "financial_reporter", financial_reporter_agent(state))
    /\ UNCHANGED outcome

Next ==
    \/ EnhancedAssetExtraction
    \/ AssetValidation
    \/ HumanInTheLoop
    \/ EnhancedPriceRetrieval
    \/ EnhancedTechnicalAnalysis
    \/ EnhancedNewsRetrieval
    \/ EnhancedSentimentAnalysis
    \/ ComprehensiveReporter
    \/ TickerExtraction
    \/ BasicPriceRetrieval
    \/ BasicTechnicalAnalysis
    \/ BasicNewsRetrieval
    \/ BasicSentimentAnalysis
    \/ FinancialReporter

Spec == Init /\ [][Next]_vars

----------------------------------------------------------------------------
(* Runs of the basic and the AI workflow on the request texts.  Here the   *)
(* outcome is what the language model did in the run: the kind and the     *)
(* text of the ticker chain's answer and whether the stage fell back to    *)
(* its default, then the kinds of the sentiment and the report answers.    *)

TickerWorkflows == {"basic", "ai"}

\* The message logs a run starts with: empty, or the user's request.
RequestLogs == {<<>>} \cup {<<UserMessage(t)>> : t \in RequestTexts}

NoAnswer == [kind |-> "none", fallback |-> FALSE, answer |-> "", sentiment |-> "none", report |-> "none"]

InitTickers ==
    /\ wf \in TickerWorkflows
    /\ pc = Entry[wf]
    /\ state \in {InitialState(m) : m \in RequestLogs}
    /\ outcome = NoAnswer
    /\ trace = <<>>

\* A node raises: invoke propagates the exception to the caller, no further
\* node runs, and the state dict is as the node left it.
RaiseFrom(w, node, left) ==
    /\ wf = w
    /\ pc = node
    /\ state' = left
    /\ pc' = "ERROR"
    /\ trace' = trace
    /\ wf' = wf

AITickerExtraction ==
    /\ wf = "ai"
    /\ pc = "ai_ticker_extraction"
    /\ \E r \in TickerAnswers :
           /\ RunNode("ai", "ai_ticker_extraction", ai_ticker_extraction_agent(state, r))
           /\ outcome' = [outcome EXCEPT !.kind = r.kind, !.answer = r.text,
                              !.fallback = (r.kind = "raise" \/ ~is_valid_ticker(Clean(r.text)))]

AIPriceRetrieval ==
    /\ RunNode("ai", "price_retrieval", ai_price_retrieval_agent(state))
    /\ UNCHANGED outcome

AITechnicalAnalysis ==
    /\ RunNode("ai", "technical_analysis", ai_technical_analysis_agent(state))
    /\ UNCHANGED outcome

AINewsRetrieval ==
    /\ RunNode("ai", "news_retrieval", ai_news_retrieval_agent(state))
    /\ UNCHANGED outcome

AISentimentAnalysis ==
    /\ wf = "ai"
    /\ pc = "ai_sentiment_analysis"
    /\ \E r \in SentimentAnswers :
           /\ IF r.kind = "nondict"
              THEN RaiseFrom("ai", "ai_sentiment_analysis", ai_sentiment_analysis_agent(state, r))
              ELSE RunNode("ai", "ai_sentiment_analysis", ai_sentiment_analysis_agent(state, r))
           /\ outcome' = [outcome EXCEPT !.sentiment = r.kind]

AIFinancialReporter ==
    /\ wf = "ai"
    /\ pc = "ai_financial_reporter"
    /\ \E r \in ReportAnswers :
           /\ RunNode("ai", "ai_financial_reporter", ai_financial_reporter_agent(state, r))
           /\ outcome' = [outcome EXCEPT !.report = r.kind]

NextTickers ==
    \/ TickerExtraction
    \/ BasicPriceRetrieval
    \/ BasicTechnicalAnalysis
    \/ BasicNewsRetrieval
    \/ BasicSentimentAnalysis
    \/ FinancialReporter
    \/ AITickerExtraction
    \/ AIPriceRetrieval
    \/ AITechnicalAnalysis
    \/ AINewsRetrieval
    \/ AISentimentAnalysis
    \/ AIFinancialReporter

SpecTickers == InitTickers /\ [][NextTickers]_vars

\* invoke runs the nodes one after the other until END or an exception.
FairSpecTickers == SpecTickers /\ WF_vars(NextTickers)

----------------------------------------------------------------------------
(* The resolver of the design (section 4.2), on texts that name one asset  *)
(* or none: normalisation, exact-alias match, misspelling lookup and the   *)
(* default.  No text of the model names a sector, so there is nothing to   *)
(* expand and nothing to merge.                                            *)

\* Lowercasing and trimming on the texts the resolver is called with; a
\* lowercase text without outer blanks is its own normal form.
NormalizeTable == ("Etherium" :> "etherium") @@ (" bitcon " :> "bitcon") @@ ("BTC" :> "btc")

Normalize(text) == IF text \in DOMAIN NormalizeTable THEN NormalizeTable[text] ELSE text

\* The penalty of a misspelling correction and the confidence of the
\* default, in hundredths.
FixedPenalty == 5

FallbackConfidence == 50

\* The assets that list the text among their aliases.
ExactAliasMatches(text) == {t \in DOMAIN CRYPTO_ASSETS : text \in Range(CRYPTO_ASSETS[t].aliases)}

Resolver(text) ==
    LET n == Normalize(text)
        exact == ExactAliasMatches(n)
    IN  IF exact # {}
        THEN LET t == CHOOSE t \in exact : TRUE
             IN  [ticker |-> t, confidence |-> CRYPTO_ASSETS[t].confidence, origin |-> "exact-alias"]
        ELSE IF n \in DOMAIN MISSPELLINGS
        THEN [ticker |-> MISSPELLINGS[n],
              confidence |-> CRYPTO_ASSETS[MISSPELLINGS[n]].confidence - FixedPenalty,
              origin |-> "misspelling-correction"]
        ELSE [ticker |-> "BTC", confidence |-> FallbackConfidence, origin |-> "fallback-default"]

----------------------------------------------------------------------------
(* Callers of the catalog: a sequence of lookups on the module's tables.   *)
(* Here the state holds the tables and the last call (its name, argument   *)
(* and result), and trace the calls made.                                  *)

MaxLookups == 2

\* The arguments the lookups are called with.
TickerQueries == DOMAIN CRYPTO_ASSETS \cup {"btc", "usdt", "pepe", "xyz", "XYZ", "LUNA", ""}

SectorQueries ==
    DOMAIN SECTOR_MAPPINGS \cup {"ai", "Ai", "defi", "gaming", "meme", "stablecoin", "Metaverse", "NFT", ""}

ResolverTexts == DOMAIN MISSPELLINGS \cup {"btc", "BTC", "Etherium", " bitcon ", "xyz", ""}

NoResolved == [ticker |-> "", confidence |-> 0, origin |-> ""]

InitCatalog ==
    /\ wf = "catalog"
    /\ pc = "ready"
    /\ state = [assets |-> CRYPTO_ASSETS, sectors |-> SECTOR_MAPPINGS, misspellings |-> MISSPELLINGS,
                op |-> "", arg |-> "", asset |-> NoAsset, tickers |-> <<>>, flag |-> FALSE,
                resolved |-> NoResolved]
    /\ outcome = NoOutcome
    /\ trace = <<>>

\* A call of op with arg returns; none of the lookups assigns to a table.
Lookup(op, arg, asset, tickers, flag, resolved) ==
    /\ state' = [state EXCEPT !.op = op, !.arg = arg, !.asset = asset, !.tickers = tickers,
                              !.flag = flag, !.resolved = resolved]
    /\ trace' = Append(trace, op)
    /\ UNCHANGED <<wf, pc, outcome>>

GetAssetByTicker ==
    /\ wf = "catalog"
    /\ Len(trace) < MaxLookups
    /\ \E ticker \in TickerQueries :
           Lookup("get_asset_by_ticker", ticker, get_asset_by_ticker(ticker), <<>>, FALSE, NoResolved)

GetAssetsBySector ==
    /\ wf = "catalog"
    /\ Len(trace) < MaxLookups
    /\ \E sector \in SectorQueries :
           Lookup("get_assets_by_sector", sector, NoAsset, get_assets_by_sector(sector), FALSE, NoResolved)

IsStablecoin ==
    /\ wf = "catalog"
    /\ Len(trace) < MaxLookups
    /\ \E ticker \in TickerQueries :
           Lookup("is_stablecoin", ticker, NoAsset, <<>>, is_stablecoin(ticker), NoResolved)

Resolve ==
    /\ wf = "catalog"
    /\ Len(trace) < MaxLookups
    /\ \E text \in ResolverTexts :
           Lookup("resolve", text, NoAsset, <<>>, FALSE, Resolver(text))

NextCatalog ==
    \/ GetAssetByTicker
    \/ GetAssetsBySector
    \/ IsStablecoin
    \/ Resolve

SpecCatalog == InitCatalog /\ [][NextCatalog]_vars

----------------------------------------------------------------------------
(* Two requests on one instance of the enhanced workflow.  Each request    *)
(* owns its state dict; the nodes of the two invocations run in any        *)
(* interleaving.  Here state holds the two dicts and the module's tables,  *)
(* pc the node each request is at, outcome the dict each request started   *)
(* with and the extractor's answer to it, trace the nodes run for each     *)
(* request.                                                                *)

Requests == {1, 2}

\* The message logs the two requests start with.
PairLogs == {<<UserMessage(t)>> : t \in {<<"B", "u", "y", " ", "E", "T", "H">>, <<"d", "o", "g", "e">>}}

\* The answers of the extractor to the two requests.
PairResponses ==
    { Resp("raise", {}, <<>>, "", FALSE, ""),
      BareResponse(<<>>),
      BareResponse(<<RespAsset("USDT", 84)>>),
      FullResponse(<<RespAsset("PEPE", 85), RespAsset("BTC", 84)>>, "sector", TRUE, "sector_request") }

NoPairAnswer == Resp("none", {}, <<>>, "", FALSE, "")

InitPair ==
    /\ wf = "enhanced"
    /\ pc = [i \in Requests |-> EnhancedEntry]
    /\ \E logs \in [Requests -> PairLogs] :
           /\ state = [request |-> [i \in Requests |-> InitialState(logs[i])],
                       assets |-> CRYPTO_ASSETS, sectors |-> SECTOR_MAPPINGS,
                       misspellings |-> MISSPELLINGS]
           /\ outcome = [i \in Requests |-> [initial |-> InitialState(logs[i]), answer |-> NoPairAnswer]]
    /\ trace = [i \in Requests |-> <<>>]

\* A node that writes its result into every request's dict.
PairStep_SharedState(i, node, result) ==
    /\ pc[i] = node
    /\ state' = [state EXCEPT !.request = [j \in Requests |-> result]]
    /\ pc' = [pc EXCEPT ![i] = EnhancedEdges[node]]
    /\ trace' = [trace EXCEPT ![i] = Append(@, node)]
    /\ wf' = wf

\* The executor runs node for request i on that request's dict and follows
\* the node's edge; no node assigns to a table.
PairStep(i, node, result) ==
    /\ pc[i] = node
    /\ state' = [state EXCEPT !.request[i] = result]
    /\ pc' = [pc EXCEPT ![i] = EnhancedEdges[node]]
    /\ trace' = [trace EXCEPT ![i] = Append(@, node)]
    /\ wf' = wf

PairAssetExtraction ==
    \E i \in Requests :
        /\ pc[i] = "enhanced_asset_extraction"
        /\ \E r \in PairResponses :
               /\ PairStep(i, "enhanced_asset_extraction",
                           enhanced_asset_extraction_agent(state.request[i], r))
               /\ outcome' = [outcome EXCEPT ![i].answer = r]

PairAssetValidation ==
    \E i \in Requests :
        /\ PairStep(i, "asset_validation", asset_validation_agent(state.request[i]))
        /\ UNCHANGED outcome

PairHumanInTheLoop ==
    \E i \in Requests :
        /\ PairStep(i, "human_in_the_loop", human_in_the_loop_agent(state.request[i]))
        /\ UNCHANGED outcome

PairPriceRetrieval ==
    \E i \in Requests :
        /\ PairStep(i, "price_retrieval", enhanced_price_retrieval_agent(state.request[i]))
        /\ UNCHANGED outcome

PairTechnicalAnalysis ==
    \E i \in Requests :
        /\ PairStep(i, "technical_analysis", enhanced_technical_analysis_agent(state.request[i]))
        /\ UNCHANGED outcome

PairNewsRetrieval ==
    \E i \in Requests :
        /\ PairStep(i, "news_retrieval", enhanced_news_retrieval_agent(state.request[i]))
        /\ UNCHANGED outcome

PairSentimentAnalysis ==
    \E i \in Requests :
        /\ PairStep(i, "sentiment_analysis", enhanced_sentiment_analysis_agent(state.request[i]))
        /\ UNCHANGED outcome

PairComprehensiveReporter ==
    \E i \in Requests :
        /\ PairStep(i, "comprehensive_reporter", comprehensive_reporter_agent(state.request[i]))
        /\ UNCHANGED outcome

NextPair ==
    \/ PairAssetExtraction
    \/ PairAssetValidation
    \/ PairHumanInTheLoop
    \/ PairPriceRetrieval
    \/ PairTechnicalAnalysis
    \/ PairNewsRetrieval
    \/ PairSentimentAnalysis
    \/ PairComprehensiveReporter

SpecPair == InitPair /\ [][NextPair]_vars

----------------------------------------------------------------------------
(* Properties of the enhanced workflow's resolution, validation and gate   *)

ExtractionDone == wf = "enhanced" /\ trace # <<>>

GateDone == wf = "enhanced" /\ "human_in_the_loop" \in Range(trace)

ResolvedAssets == Get(state, "extracted_assets", <<>>)

\* C1: after the extraction stage of the enhanced workflow the resolved
\* asset list is non-empty, whatever the extractor answered.
C1_ResolvedAssetsNonEmpty == ExtractionDone => ResolvedAssets # <<>>

\* C2: after the extraction stage the primary ticker and the ticker of
\* every resolved asset are keys of the asset catalog.
C2_TickersAreCataloged ==
    ExtractionDone =>
        /\ state.ticker \in DOMAIN CRYPTO_ASSETS
        /\ \A i \in DOMAIN ResolvedAssets : ResolvedAssets[i].ticker \in DOMAIN CRYPTO_ASSETS

\* C3: when the extractor call raises or its output cannot be parsed, the
\* extraction stage completes with exactly one resolved asset (BTC with
\* confidence 0.5), primary ticker BTC and mode asset_specific, and the
\* executor goes on to the validation stage.
C3_FallbackOnExtractorFailure ==
    (wf = "enhanced" /\ outcome.kind \in {"raise", "unparsable"}) =>
        /\ {"ticker", "extracted_assets", "analysis_mode"} \subseteq state.keys
        /\ Len(state.extracted_assets) = 1
        /\ state.extracted_assets[1].ticker = "BTC"
        /\ state.extracted_assets[1].confidence = 50
        /\ state.ticker = "BTC"
        /\ state.analysis_mode = "asset_specific"
        /\ trace[1] = "enhanced_asset_extraction"
        /\ (Len(trace) = 1 => pc = "asset_validation")

C3_Witness ==
    wf = "enhanced" /\ outcome.kind = "unparsable" /\ pc = "asset_validation"

\* C4: after the extraction stage, review is required exactly when the
\* reason is not none (requires_review == (reason != none)).
C4_ReviewIffReason ==
    ExtractionDone => (state.hitl_required <=> state.hitl_reason \notin {"", "none"})

\* C5: once the gate has run, if extraction did not take the fallback path
\* and some resolved asset has confidence below 0.85, then review is
\* required with reason confidence_low and the gate has not logged that no
\* human intervention is required.
C5_LowConfidenceRequiresReview ==
    (/\ GateDone
     /\ ~outcome.fallback
     /\ \E i \in DOMAIN ResolvedAssets : Get(ResolvedAssets[i], "confidence", 0) < 85) =>
        /\ state.hitl_required
        /\ state.hitl_reason = "confidence_low"
        /\ \A i \in DOMAIN state.messages :
              state.messages[i].agent = "human_in_the_loop"
                  => state.messages[i].content # NoInterventionMessage

C7_SectorModeRequiresReview ==
    (/\ GateDone
     /\ ~outcome.fallback
     /\ Get(state, "analysis_mode", "") = "sector"
     /\ \A i \in DOMAIN ResolvedAssets : Get(ResolvedAssets[i], "confidence", 0) >= 85) =>
        /\ state.hitl_required
        /\ state.hitl_reason \in {"sector_request", "ambiguous_asset"}

----------------------------------------------------------------------------
(* Properties of the executor *)

EnhancedOrder ==
    <<"enhanced_asset_extraction", "asset_validation", "human_in_the_loop", "price_retrieval",
      "technical_analysis", "news_retrieval", "sentiment_analysis", "comprehensive_reporter">>

BasicOrder ==
    <<"ticker_extraction", "price_retrieval", "technical_analysis", "news_retrieval",
      "sentiment_analysis", "financial_reporter">>

StageOrder == IF wf = "enhanced" THEN EnhancedOrder ELSE BasicOrder

\* C8: the stages run in the fixed order, each exactly once and one after
\* the other: the stages run so far are a prefix of the order, the next
\* stage to run is the one that follows the prefix, and the run ends when
\* the whole order has run.
C8_StagesRunInFixedOrder ==
    /\ Len(trace) <= Len(StageOrder)
    /\ trace = SubSeq(StageOrder, 1, Len(trace))
    /\ pc = IF Len(trace) = Len(StageOrder) THEN "END" ELSE StageOrder[Len(trace) + 1]

C8_Witness == wf = "enhanced" /\ pc = "END" /\ Len(trace) = 8

\* Every step appends one entry, naming the stage that ran, to the log.
AppendsOneEntry ==
    /\ Len(state'.messages) = Len(state.messages) + 1
    /\ SubSeq(state'.messages, 1, Len(state.messages)) = state.messages
    /\ state'.messages[Len(state'.messages)].agent = pc

\* The log is the initial log followed by one entry per stage run, in the
\* order the stages ran.
LogFollowsTrace ==
    /\ Len(state.messages) >= Len(trace)
    /\ \A i \in DOMAIN trace :
          state.messages[Len(state.messages) - Len(trace) + i].agent = trace[i]
    /\ \A i \in 1..(Len(state.messages) - Len(trace)) : state.messages[i].role = "user"

\* C9: every stage execution, on its success path and on its fallback path
\* alike, changes the log only by appending one entry that names the
\* stage, and the log of a run is the initial log followed by one entry
\* per stage in stage order.
C9_LogAppendOnly == [][AppendsOneEntry]_vars /\ []LogFollowsTrace

C9_Witness ==
    /\ wf = "enhanced" /\ outcome.fallback /\ pc = "END"
    /\ Len(state.messages) = 9
    /\ state.messages[1].role = "user"

\* C10: the gate stage changes no state field but the message log, is
\* always able to run when it is its turn, and is followed by price
\* retrieval, whether or not review is required.
C10_GateIsAdvisory ==
    /\ [][(wf = "enhanced" /\ pc = "human_in_the_loop") =>
             /\ pc' = "price_retrieval"
             /\ [state' EXCEPT !.messages = state.messages] = state]_vars
    /\ []((wf = "enhanced" /\ pc = "human_in_the_loop") => ENABLED HumanInTheLoop)

C10_Witness ==
    wf = "enhanced" /\ pc = "price_retrieval" /\ state.hitl_required = TRUE

----------------------------------------------------------------------------
(* Properties of the validator and of the resolved asset list *)

ValidationDone == wf = "enhanced" /\ "asset_validation" \in Range(trace)

\* The sector tags of the catalog entry a ticker names.
CatalogSectors(ticker) ==
    IF Upper(ticker) \in DOMAIN CRYPTO_ASSETS
    THEN Range(CRYPTO_ASSETS[Upper(ticker)].sectors)
    ELSE {}

\* The warning rules that apply to a resolved asset.
RulesFor(asset) ==
    (IF "Stablecoin" \in CatalogSectors(Get(asset, "ticker", "")) THEN {"stablecoin"} ELSE {})
        \cup (IF "Meme" \in CatalogSectors(Get(asset, "ticker", "")) THEN {"meme"} ELSE {})
        \cup (IF Get(asset, "confidence", 0) < get_confidence_threshold THEN {"low"} ELSE {})

\* C13: once the validator has run, the warning list holds a stablecoin
\* warning for a ticker iff a resolved asset with that ticker is tagged
\* Stablecoin in the catalog, a meme warning iff one is tagged Meme, a
\* low-confidence warning for a ticker and confidence iff a resolved asset
\* has them with the confidence strictly below the threshold, and nothing
\* else: one warning per asset and applicable rule.
C13_WarningsFollowRules ==
    ValidationDone =>
        LET assets == ResolvedAssets
            warnings == Range(state.asset_warnings)
        IN  /\ \A i \in DOMAIN assets :
                  LET t == Get(assets[i], "ticker", "")
                      c == Get(assets[i], "confidence", 0)
                  IN  /\ StablecoinWarning(t) \in warnings
                            <=> \E j \in DOMAIN assets :
                                    Get(assets[j], "ticker", "") = t /\ "stablecoin" \in RulesFor(assets[j])
                      /\ MemeWarning(t) \in warnings
                            <=> \E j \in DOMAIN assets :
                                    Get(assets[j], "ticker", "") = t /\ "meme" \in RulesFor(assets[j])
                      /\ LowConfidenceWarning(t, c) \in warnings
                            <=> \E j \in DOMAIN assets :
                                    /\ Get(assets[j], "ticker", "") = t
                                    /\ Get(assets[j], "confidence", 0) = c
                                    /\ "low" \in RulesFor(assets[j])
            /\ Len(state.asset_warnings)
                  = Cardinality({<<i, r>> \in (DOMAIN assets) \X {"stablecoin", "meme", "low"} :
                                    r \in RulesFor(assets[i])})

\* A stablecoin below the threshold followed by a meme coin exactly at it:
\* three warnings, none of them a low-confidence warning for the second.
C13_Witness ==
    /\ ValidationDone
    /\ Len(ResolvedAssets) = 2
    /\ ResolvedAssets[1].ticker = "USDT" /\ ResolvedAssets[1].confidence = 84
    /\ ResolvedAssets[2].ticker = "PEPE" /\ ResolvedAssets[2].confidence = 85
    /\ Len(state.asset_warnings) = 3

\* C20: after the extraction stage no ticker occurs twice in the resolved
\* asset list, and once the per-ticker price map is built it has as many
\* keys as there are resolved assets.
C20_ResolvedAssetsDistinct ==
    ExtractionDone =>
        /\ \A i, j \in DOMAIN ResolvedAssets :
              ResolvedAssets[i].ticker = ResolvedAssets[j].ticker => i = j
        /\ "all_price_data" \in state.keys =>
              Cardinality(DOMAIN state.all_price_data) = Len(ResolvedAssets)

----------------------------------------------------------------------------
(* Properties of the basic and the AI workflow *)

BasicDone == wf = "basic" /\ pc = "END"

\* C11: for every request text (the empty one, an incomplete one and one
\* naming an unknown asset included) a run of the basic workflow eventually
\* completes its six stages, and it then has a non-empty ticker and
\* price_history, technical_indicators, news_articles, sentiment_scores and
\* risk_profile written.
C11_BasicRunCompletes ==
    /\ [](BasicDone =>
            /\ trace = BasicOrder
            /\ state.ticker # ""
            /\ state.price_history # <<>>
            /\ state.technical_indicators # EmptyDict
            /\ state.news_articles # <<>>
            /\ state.sentiment_scores # EmptyDict
            /\ state.risk_profile # EmptyDict
            /\ {"ticker", "price_history", "technical_indicators", "news_articles",
                "sentiment_scores", "risk_profile"} \subseteq state.keys)
    /\ [](wf = "basic" => pc # "ERROR")
    /\ (wf = "basic") ~> BasicDone

\* A run on "Analyze XYZ123" has completed.
C11_Witness ==
    /\ BasicDone
    /\ state.messages[1] = UserMessage(<<"A", "n", "a", "l", "y", "z", "e", " ", "X", "Y", "Z", "1", "2", "3">>)
    /\ state.ticker = "BTC"
    /\ Len(state.messages) = 7


\* The fields and the log as the stages before the failing one left them.
EarlierWritesKept ==
    /\ state'.messages = state.messages
    /\ state'.ticker = state.ticker
    /\ state'.price_history = state.price_history
    /\ state'.technical_indicators = state.technical_indicators
    /\ state'.news_articles = state.news_articles

\* The language model behind the sentiment or the report stage fails in
\* this step.
CollaboratorFails ==
    /\ wf = "ai"
    /\ \/ pc = "ai_sentiment_analysis" /\ outcome'.sentiment = "raise"
       \/ pc = "ai_financial_reporter" /\ outcome'.report = "raise"

\* C12: when the collaborator behind an enrichment stage fails, the error
\* is surfaced to the caller: the run stops at the failing stage, which is
\* not run again, no later stage runs, and the fields and log entries
\* written by the earlier stages keep their values.
C12_CollaboratorFailureSurfaces ==
    [][CollaboratorFails => (pc' = "ERROR" /\ trace' = trace /\ EarlierWritesKept)]_vars


\* The request text of the run, read back from the log once a stage has
\* appended to it: the content of the user's entry, or the empty text when
\* the run started with an empty log.
RequestText ==
    IF state.messages[1].role = "user" THEN state.messages[1].content ELSE <<>>

\* The log entry the extraction stage appended.
ExtractionEntry ==
    IF state.messages[1].role = "user" THEN state.messages[2] ELSE state.messages[1]

\* The cataloged assets of which some alias occurs in the text, case ignored.
NamedAssets(text) ==
    {t \in DOMAIN AliasChars : \E a \in AliasChars[t] : Contains(Lower(a), Lower(text))}

\* C18: when the request text contains, case ignored, an alias of a
\* cataloged asset (its ticker, its name or a listed alias) and of no other
\* asset, the extraction stage of the basic workflow writes that asset's
\* ticker.
C18_AliasResolvesToItsAsset ==
    (wf = "basic" /\ trace # <<>>) =>
        \A t \in DOMAIN AliasChars : NamedAssets(RequestText) = {t} => state.ticker = t

\* The text contains none of the tickers the basic extraction knows.
NoCommonTicker(text) ==
    \A i \in DOMAIN common_tickers : ~Contains(Lower(TickerChars[common_tickers[i]]), Lower(text))

\* The ticker chain failed, or its cleaned answer is no value of CRYPTO_TICKERS.
NoValidAnswer ==
    outcome.kind = "raise" \/ Clean(outcome.answer) \notin Range(CRYPTO_TICKERS)

\* C19: when ticker extraction recognises no asset (basic workflow: no known
\* ticker occurs in the text, the empty text and the empty log included; AI
\* workflow: the call fails or the answer is not a valid ticker), the stage
\* completes, having written the ticker BTC and its log entry.
C19_DefaultsToBTC ==
    /\ (pc = "ERROR" => trace # <<>>)
    /\ (wf = "basic" /\ trace # <<>> /\ NoCommonTicker(RequestText)) =>
           /\ trace[1] = "ticker_extraction"
           /\ state.ticker = "BTC"
           /\ ExtractionEntry = AgentMessage("ticker_extraction", <<"Extracted ticker: ", "BTC">>)
    /\ (wf = "ai" /\ trace # <<>> /\ NoValidAnswer) =>
           /\ trace[1] = "ai_ticker_extraction"
           /\ state.ticker = "BTC"
           /\ ExtractionEntry.agent = "ai_ticker_extraction"
           /\ ExtractionEntry.content[2] = "BTC"

\* The basic extraction has run on an empty log.
C19_Witness ==
    /\ wf = "basic"
    /\ trace = <<"ticker_extraction">>
    /\ Len(state.messages) = 1
    /\ state.ticker = "BTC"

----------------------------------------------------------------------------
(* Properties of the catalog and of the resolver *)

\* Some key equals the argument when case is ignored.
KnownIgnoringCase(arg, keys) == \E k \in keys : Upper(k) = Upper(arg)

\* C14: the lookups return on absence and leave the tables alone:
\* get_asset_by_ticker on a ticker that is not cataloged returns the empty
\* record, get_assets_by_sector on an unknown sector the empty list, and
\* is_stablecoin on an unknown ticker false.
C14_LookupsTotalOnAbsence ==
    /\ (state.op = "get_asset_by_ticker" /\ ~KnownIgnoringCase(state.arg, DOMAIN CRYPTO_ASSETS)) =>
           state.asset.keys = {}
    /\ (state.op = "get_assets_by_sector" /\ ~KnownIgnoringCase(state.arg, DOMAIN SECTOR_MAPPINGS)) =>
           state.tickers = <<>>
    /\ (state.op = "is_stablecoin" /\ ~KnownIgnoringCase(state.arg, DOMAIN CRYPTO_ASSETS)) =>
           state.flag = FALSE
    /\ state.assets = CRYPTO_ASSETS
    /\ state.sectors = SECTOR_MAPPINGS
    /\ state.misspellings = MISSPELLINGS

\* An uncataloged ticker was looked up after an unknown sector.
C14_Witness ==
    /\ trace = <<"get_assets_by_sector", "get_asset_by_ticker">>
    /\ state.op = "get_asset_by_ticker"
    /\ state.arg = "LUNA"
    /\ state.asset = NoAsset

\* C15: for every key of SECTOR_MAPPINGS, get_assets_by_sector called with
\* that key returns the key's member tickers in their listed order (so only
\* names that are no key yield the empty list).
C15_SectorLookupByKey ==
    (state.op = "get_assets_by_sector" /\ state.arg \in DOMAIN SECTOR_MAPPINGS) =>
        state.tickers = SECTOR_MAPPINGS[state.arg]

\* C16: every ticker listed under a sector of SECTOR_MAPPINGS and every
\* target of MISSPELLINGS is a key of CRYPTO_ASSETS, every base confidence
\* lies in [0,1] (in hundredths: 0..100), and so every ticker a sector
\* lookup returns is found by get_asset_by_ticker.
C16_CatalogReferentialIntegrity ==
    /\ \A s \in DOMAIN SECTOR_MAPPINGS : Range(SECTOR_MAPPINGS[s]) \subseteq DOMAIN CRYPTO_ASSETS
    /\ \A m \in DOMAIN MISSPELLINGS : MISSPELLINGS[m] \in DOMAIN CRYPTO_ASSETS
    /\ \A t \in DOMAIN CRYPTO_ASSETS : CRYPTO_ASSETS[t].confidence \in 0..100
    /\ state.op = "get_assets_by_sector" =>
           \A t \in Range(state.tickers) : get_asset_by_ticker(t).keys # {}

\* The sector AI was looked up and returned its five members.
C16_Witness ==
    /\ state.op = "get_assets_by_sector"
    /\ state.arg = "AI"
    /\ Len(state.tickers) = 5

\* C17: resolving a text equal to a key of MISSPELLINGS returns the key's
\* target ticker with a confidence strictly below the asset's base
\* confidence.
C17_MisspellingLowersConfidence ==
    (state.op = "resolve" /\ state.arg \in DOMAIN MISSPELLINGS) =>
        /\ state.resolved.ticker = MISSPELLINGS[state.arg]
        /\ state.resolved.confidence < CRYPTO_ASSETS[MISSPELLINGS[state.arg]].confidence

----------------------------------------------------------------------------
(* Properties of repeated and of interleaved requests *)

\* Request i has passed the extraction stage.
Extracted(i) == pc[i] # "enhanced_asset_extraction"

\* What the extraction stage resolved for a request: the primary ticker,
\* the resolved assets, the mode and the HITL decision.
Resolution(s) ==
    <<s.ticker, Get(s, "extracted_assets", <<>>), Get(s, "analysis_mode", ""),
      Get(s, "hitl_required", FALSE), Get(s, "hitl_reason", "")>>

\* C21: two runs of the extraction stage on the same request text leave the
\* same primary ticker, resolved asset list, mode and HITL decision.
C21_ResolutionDeterministic ==
    \A i, j \in Requests :
        (/\ Extracted(i)
         /\ Extracted(j)
         /\ UserInput(outcome[i].initial) = UserInput(outcome[j].initial)) =>
            Resolution(state.request[i]) = Resolution(state.request[j])


\* The node's stage function applied to a request's dict.
EnhancedStage(node, s, r) ==
    CASE node = "enhanced_asset_extraction" -> enhanced_asset_extraction_agent(s, r)
      [] node = "asset_validation" -> asset_validation_agent(s)
      [] node = "human_in_the_loop" -> human_in_the_loop_agent(s)
      [] node = "price_retrieval" -> enhanced_price_retrieval_agent(s)
      [] node = "technical_analysis" -> enhanced_technical_analysis_agent(s)
      [] node = "news_retrieval" -> enhanced_news_retrieval_agent(s)
      [] node = "sentiment_analysis" -> enhanced_sentiment_analysis_agent(s)
      [] node = "comprehensive_reporter" -> comprehensive_reporter_agent(s)

\* The final state of a request that is run alone from node on, with the
\* extractor answering r.
RECURSIVE RunAloneFrom(_, _, _)
RunAloneFrom(node, s, r) ==
    IF node = "END" THEN s
    ELSE RunAloneFrom(EnhancedEdges[node], EnhancedStage(node, s, r), r)

----------------------------------------------------------------------------
(* Properties of the stages' effects on the state *)

\* The number of warnings the rules give for the assets before the i-th.
WarningsBefore(assets, i) ==
    Cardinality({<<k, r>> \in (1..(i - 1)) \X {"stablecoin", "meme", "low"} : r \in RulesFor(assets[k])})

\* C23: the warning list is determined by the resolved asset list and the
\* catalog, asset by asset in resolution order: the warnings of the i-th
\* asset, as many as rules apply to it, follow those of the assets before
\* it and name its ticker; and the validation stage changes nothing in the
\* state but the warning list and the message log.
C23_ValidationIsOrderedAndFramed ==
    /\ [](ValidationDone =>
             \A i \in DOMAIN ResolvedAssets :
                 \A p \in 1..Cardinality(RulesFor(ResolvedAssets[i])) :
                     /\ WarningsBefore(ResolvedAssets, i) + p <= Len(state.asset_warnings)
                     /\ state.asset_warnings[WarningsBefore(ResolvedAssets, i) + p][2]
                            = Get(ResolvedAssets[i], "ticker", ""))
    /\ [][(wf = "enhanced" /\ pc = "asset_validation") =>
             [state' EXCEPT !.asset_warnings = state.asset_warnings,
                            !.messages = state.messages,
                            !.keys = state.keys] = state]_vars

\* The validator has run on a stablecoin and a meme coin, both below the
\* threshold: two warnings for the first, then two for the second.
C23_Witness ==
    /\ ValidationDone
    /\ Len(ResolvedAssets) = 2
    /\ ResolvedAssets[1].ticker = "USDT" /\ ResolvedAssets[1].confidence = 84
    /\ ResolvedAssets[2].ticker = "PEPE" /\ ResolvedAssets[2].confidence = 84
    /\ Len(state.asset_warnings) = 4
    /\ state.asset_warnings[3][2] = "PEPE"


\* The log entry the gate appended.
GateEntry == state.messages[CHOOSE i \in DOMAIN state.messages : state.messages[i].agent = "human_in_the_loop"]

\* The words the advisory opens with for the reasons it knows by name.
ReasonLead ==
       ("confidence_low" :> "Low confidence in asset extraction. Extracted: ")
    @@ ("ambiguous_asset" :> "Ambiguous asset detected. Extracted: ")
    @@ ("sector_request" :> "Sector request detected. Representative assets: ")

\* The content speaks of the reason: in the words kept for it, or by its name.
ReferencesReason(content, reason) ==
    IF reason \in DOMAIN ReasonLead THEN content[1] = ReasonLead[reason] ELSE reason \in Range(content)

\* C24: whenever review is required, whatever the reason, the entry the gate
\* appended carries an advisory that references the reason and the ticker
\* of every resolved asset.
C24_AdvisoryNamesReasonAndTickers ==
    (GateDone /\ Get(state, "hitl_required", FALSE)) =>
        /\ ReferencesReason(GateEntry.content, Get(state, "hitl_reason", "unknown"))
        /\ \A i \in DOMAIN ResolvedAssets : ResolvedAssets[i].ticker \in Range(GateEntry.content)


RunDone == pc = "END"

LastEntry == state.messages[Len(state.messages)]

\* C25: when a run has completed, the last entry of the log is the report
\* stage's and its content is the final report (in the enhanced workflow
\* the comprehensive_report field); nothing runs after the report stage.
C25_ReportIsLastEntry ==
    /\ [](RunDone =>
             /\ trace[Len(trace)] = LastEntry.agent
             /\ IF wf = "enhanced"
                THEN /\ LastEntry.agent = "comprehensive_reporter"
                     /\ "comprehensive_report" \in state.keys
                     /\ LastEntry.content = state.comprehensive_report
                     /\ state.comprehensive_report[1] = "# Comprehensive Crypto Analysis Report"
                ELSE /\ LastEntry.agent = "financial_reporter"
                     /\ LastEntry.content =
                            basic_generate_comprehensive_report(state.ticker, state.technical_indicators,
                                state.news_articles, state.sentiment_scores, state.risk_profile))
    /\ [][~RunDone]_vars

\* An enhanced run on a sector answer with two assets has completed.
C25_Witness ==
    /\ RunDone
    /\ wf = "enhanced"
    /\ state.analysis_mode = "sector"
    /\ Len(ResolvedAssets) = 2
    /\ Len(state.comprehensive_report) > 10

\* C26: when a run has completed, risk_profile is non-empty, and it was
\* written by the report stage: it is empty until that stage has run.
C26_RiskProfileWritten ==
    /\ RunDone => state.risk_profile # EmptyDict
    /\ ~RunDone => state.risk_profile = EmptyDict

\* C27: in the enhanced workflow the primary ticker is, from the extraction
\* stage on, the ticker of the first resolved asset, and on completion the
\* primary price_history, technical_indicators, news_articles and
\* sentiment_scores are that ticker's entries of the per-ticker maps and
\* are non-empty.
C27_PrimaryIsFirstResolved ==
    /\ ExtractionDone =>
           /\ ResolvedAssets # <<>>
           /\ state.ticker = ResolvedAssets[1].ticker
    /\ (ExtractionDone /\ RunDone) =>
           /\ state.ticker \in DOMAIN state.all_price_data
           /\ state.price_history = state.all_price_data[state.ticker]
           /\ state.technical_indicators = state.all_technical_indicators[state.ticker]
           /\ state.news_articles = state.all_news[state.ticker]
           /\ state.sentiment_scores = state.all_sentiment[state.ticker]
           /\ state.price_history # <<>>
           /\ state.technical_indicators # EmptyDict
           /\ state.news_articles # <<>>
           /\ state.sentiment_scores # EmptyDict

\* The stage that writes each result field.
FieldOwner ==
       ("price_history" :> "price_retrieval") @@ ("all_price_data" :> "price_retrieval")
    @@ ("technical_indicators" :> "technical_analysis")
    @@ ("all_technical_indicators" :> "technical_analysis")
    @@ ("news_articles" :> "news_retrieval") @@ ("all_news" :> "news_retrieval")
    @@ ("sentiment_scores" :> "sentiment_analysis") @@ ("all_sentiment" :> "sentiment_analysis")

EnrichmentNodes == Range(FieldOwner)

\* What the extraction stage settled.
SettledFields ==
    {"ticker", "extracted_assets", "analysis_mode", "hitl_required", "hitl_reason", "user_feedback"}

\* C28: an enrichment stage changes only its own result fields and the log;
\* from the end of the extraction stage on no step changes the primary
\* ticker, the resolved assets, the mode, the HITL decision or
\* user_feedback; and a result field is changed by its own stage only.
C28_EnrichmentWritesOwnFields ==
    [][/\ pc \in EnrichmentNodes =>
              \A f \in DOMAIN state :
                  state'[f] # state[f] => (f \in {"messages", "keys"} \/ (f \in DOMAIN FieldOwner /\ FieldOwner[f] = pc))
       /\ trace # <<>> =>
              /\ \A f \in SettledFields : state'[f] = state[f]
              /\ \A f \in DOMAIN FieldOwner : state'[f] # state[f] => pc = FieldOwner[f]]_vars

\* An enhanced run with a review decision and two assets has completed its
\* enrichment, each per-ticker map holding both tickers.
C28_Witness ==
    /\ wf = "enhanced"
    /\ pc = "comprehensive_reporter"
    /\ state.hitl_required = TRUE
    /\ Cardinality(DOMAIN state.all_price_data) = 2
    /\ Cardinality(DOMAIN state.all_sentiment) = 2
    /\ state.price_history # <<>>

----------------------------------------------------------------------------
(* Properties of the agreement between the catalog's tables *)

\* C29: the sector index and the sector tags agree: for a cataloged ticker
\* that has been looked up, the ticker is listed under a sector of the
\* index iff the entry returned carries that sector as a tag.
C29_SectorIndexMatchesTags ==
    (state.op = "get_asset_by_ticker" /\ state.asset.keys # {}) =>
        \A S \in DOMAIN state.sectors :
            Upper(state.arg) \in Range(state.sectors[S])
                <=> S \in Range(Get(state.asset, "sectors", <<>>))

\* C30: is_valid_ticker accepts exactly the keys of the asset catalog, so
\* the AI extraction stage keeps an answer that, cleaned, is a catalog
\* ticker, and writes BTC for every other answer.
C30_ValidMeansCataloged ==
    (wf = "ai" /\ trace # <<>> /\ outcome.kind = "text") =>
        /\ is_valid_ticker(Clean(outcome.answer)) <=> Clean(outcome.answer) \in DOMAIN CRYPTO_ASSETS
        /\ state.ticker = IF Clean(outcome.answer) \in DOMAIN CRYPTO_ASSETS
                          THEN Clean(outcome.answer)
                          ELSE "BTC"

====
